---- MODULE Spec2Model ----
(***************************************************************************)
(* Artifact store + audit trail + artifact manager of MedVidDeID           *)
(* (src/pipeline/artifacts).  The manager's handlers are modelled twice:   *)
(* as whole-call actions of one caller (Spec), and split at the points     *)
(* where another thread can run in between (SpecConc, SpecLocked).         *)
(* The test's end-to-end scenario is SpecScenario; the audit trail used    *)
(* on its own, with small rotation thresholds, is SpecAudit, and queried   *)
(* after many rotations, SpecRotated.  SpecInputs calls create_artifact    *)
(* over argument shapes and file names, SpecRuns follows processing runs   *)
(* over more calls, SpecLineage reads the lineage in a populated store.    *)
(* SpecLongLived is an audit trail that lives across months, SpecListing   *)
(* lists the store by run id, SpecDamaged reads metadata files damaged on  *)
(* disk, and SpecFair schedules the threads fairly.                        *)
(***************************************************************************)
EXTENDS Integers, Sequences, FiniteSets, TLC

(* ------------------------------ bounds -------------------------------- *)

\* number of manager calls in one behaviour
MaxCalls == 3
\* number of artifact ids (uuid4 values) handed out
MaxArtifacts == 2
\* number of ProcessingRun objects created
MaxRuns == 2
\* number of threads calling the manager concurrently
NumThreads == 2
\* number of manager calls started in one concurrent behaviour
MaxConcCalls == 4
\* number of reads and status updates made in between the five calls of
\* the end-to-end scenario
MaxOtherCalls == 1
\* number of AuditTrail calls (log_operation, query) started in one behaviour
MaxAuditCalls == 3
\* number of lines of the log files that get damaged from outside
MaxCorrupt == 1
\* nesting depth at which a recursive call raises RecursionError; the
\* interpreter's limit, scaled to the number of artifact ids
RecursionLimit == 5

(* --------------------------- models.py -------------------------------- *)

ArtifactType ==
    {"video_raw", "video_keypoints", "video_deid", "audio_raw",
     "audio_transcript", "audio_phi_intervals", "audio_deid", "text_raw",
     "text_deid", "metadata", "log"}

ArtifactStatus == {"pending", "in_progress", "completed", "failed", "archived"}

\* Python's None, one per kind of value so that values stay comparable
NoneStr == "None"
NoneInt == -1
NoneId == 0
NonePath == [none |-> TRUE]
NoArtifact == [none |-> TRUE]
EmptyBag == <<>>

\* ArtifactMetadata(...) as create_artifact constructs it; now is datetime.now()
ArtifactMetadata(aid, artifact_type, source_artifacts, processing_module, md, now) ==
    [artifact_id |-> aid,
     artifact_type |-> artifact_type,
     status |-> "pending",
     created_at |-> now,
     updated_at |-> now,
     source_artifacts |-> source_artifacts,
     processing_module |-> processing_module,
     file_path |-> NonePath,
     file_size |-> NoneInt,
     checksum |-> NoneStr,
     metadata |-> md,
     error_message |-> NoneStr]

\* update_status as it would be if an archived artifact kept its status
update_status_archived_is_final(artifact, status, error_message, now) ==
    [artifact EXCEPT !.status = IF @ = "archived" THEN @ ELSE status,
                     !.updated_at = now,
                     !.error_message = IF error_message # NoneStr /\ error_message # ""
                                       THEN error_message ELSE @]

\* update_status as it would be if it read a clock that lags behind the one
\* the constructor reads (utcnow() for now())
update_status_lagging(artifact, status, error_message, now) ==
    [artifact EXCEPT !.status = status,
                     !.updated_at = now - 2,
                     !.error_message = IF error_message # NoneStr /\ error_message # ""
                                       THEN error_message ELSE @]

\* update_status as it would be if it stamped created_at as well
update_status_restamping(artifact, status, error_message, now) ==
    [artifact EXCEPT !.status = status,
                     !.created_at = now,
                     !.updated_at = now,
                     !.error_message = IF error_message # NoneStr /\ error_message # ""
                                       THEN error_message ELSE @]

\* ArtifactMetadata.update_status
update_status(artifact, status, error_message, now) ==
    [artifact EXCEPT !.status = status,
                     !.updated_at = now,
                     !.error_message = IF error_message # NoneStr /\ error_message # ""
                                       THEN error_message ELSE @]

\* ProcessingRun(configuration=...)
ProcessingRun(rid, configuration, now) ==
    [run_id |-> rid,
     started_at |-> now,
     completed_at |-> NoneInt,
     status |-> "in_progress",
     input_artifacts |-> <<>>,
     output_artifacts |-> <<>>,
     configuration |-> configuration]

\* ProcessingRun.complete
complete(run, status, now) ==
    [run EXCEPT !.completed_at = now, !.status = status]

\* AuditEntry(...); entry_id is the uuid4 drawn for it, now is datetime.now()
AuditEntry(entry_id, now, operation, action, artifact_id, user, module, details, success, error_message) ==
    [entry_id |-> entry_id,
     timestamp |-> now,
     operation |-> operation,
     artifact_id |-> artifact_id,
     user |-> user,
     module |-> module,
     action |-> action,
     details |-> details,
     success |-> success,
     error_message |-> error_message]

(* --------------------------- storage.py ------------------------------- *)

\* a source path handed to create_artifact: what the file system holds there
SourceKinds == {"file", "symlink", "dangling_symlink", "missing", "directory"}

is_symlink(source) == source.kind \in {"symlink", "dangling_symlink"}

\* source_path.resolve().exists()
resolved_exists(source) == source.kind \in {"file", "symlink", "directory"}

(* A file name is a sequence of characters. A character outside ASCII is   *)
(* written by its code point: U+00E9 is a Latin letter with an accent,    *)
(* U+4E2D a CJK ideograph, U+0663 an Arabic-Indic digit.                  *)

\* \w of a str pattern: letters, digits and the underscore of every script
is_word(c) == c \in {"a", "Z", "7", "_", "U+00E9", "U+4E2D", "U+0663"}

\* the length safe_filename is cut to
FilenameCap == 100

\* safe_filename of store_artifact: re.sub(r'[^\w\-_\.]', '_', name), then [:100]
safe_filename(name) ==
    LET sub == [k \in 1..Len(name) |->
                   IF is_word(name[k]) \/ name[k] \in {"-", "_", "."} THEN name[k] ELSE "_"]
    IN IF Len(sub) > FilenameCap THEN SubSeq(sub, 1, FilenameCap) ELSE sub

\* storage_path of store_artifact: artifacts/<type>/<artifact_id>_<safe_filename>
storage_path(artifact, source) ==
    [dir |-> artifact.artifact_type, aid |-> artifact.artifact_id,
     name |-> safe_filename(source.name)]

\* _calculate_checksum: SHA-256 of the bytes, a function of the content alone
calculate_checksum(content) == "sha256_" \o content

\* st_size of the stored copy
st_size(content) == Len(content)

\* store_artifact as it would be without its two checks of the source
store_error_unchecked(source) ==
    IF source.kind = "directory" THEN "Is a directory" ELSE NoneStr

\* store_artifact as it would be if it tested exists() before is_symlink()
store_error_exists_first(source) ==
    IF ~resolved_exists(source) THEN "Source file not found"
    ELSE IF is_symlink(source) THEN "Symlinks not allowed for security"
    ELSE IF source.kind = "directory" THEN "Is a directory"
    ELSE NoneStr

\* the exception store_artifact raises for this source, NoneStr when it returns
store_error(source) ==
    IF is_symlink(source) THEN "Symlinks not allowed for security"
    ELSE IF ~resolved_exists(source) THEN "Source file not found"
    ELSE IF source.kind = "directory" THEN "Is a directory"
    ELSE NoneStr

\* store_artifact as it would be without its "artifact.checksum = ..." line
stored_artifact_without_checksum(artifact, source) ==
    [artifact EXCEPT !.file_path = storage_path(artifact, source),
                     !.file_size = st_size(source.content)]

\* the artifact object after store_artifact's "Update metadata" block
stored_artifact(artifact, source) ==
    [artifact EXCEPT !.file_path = storage_path(artifact, source),
                     !.file_size = st_size(source.content),
                     !.checksum = calculate_checksum(source.content)]

\* save_metadata: the JSON document written to metadata/<artifact_id>.json
save_metadata(md, artifact) ==
    [k \in DOMAIN md \cup {artifact.artifact_id} |->
        IF k = artifact.artifact_id THEN artifact ELSE md[k]]

\* load_metadata: the record, or None when metadata/<artifact_id>.json is absent
load_metadata(md, artifact_id) ==
    IF artifact_id \in DOMAIN md THEN md[artifact_id] ELSE NoArtifact

\* load_metadata as it would be if it kept the stored strings as they are
load_error_ignored(md, artifact_id) == NoneStr

\* what load_metadata raises: ArtifactType(...) and ArtifactStatus(...) of a
\* stored string that is no member of the enumeration raise ValueError
load_error(md, artifact_id) ==
    IF /\ artifact_id \in DOMAIN md
       /\ (md[artifact_id].artifact_type \notin ArtifactType
              \/ md[artifact_id].status \notin ArtifactStatus)
    THEN "ValueError" ELSE NoneStr

\* what storage.list_artifacts raises: it loads every metadata file of the
\* directory before it applies a filter
scan_error(md) ==
    IF \E i \in DOMAIN md : load_error(md, i) # NoneStr THEN "ValueError" ELSE NoneStr

\* retrieve_artifact as it would be without the ".exists()" test
retrieve_artifact_unchecked(md, fs, artifact_id) ==
    LET m == load_metadata(md, artifact_id)
    IN IF m # NoArtifact /\ m.file_path # NonePath THEN m.file_path ELSE NonePath

\* retrieve_artifact
retrieve_artifact(md, fs, artifact_id) ==
    LET m == load_metadata(md, artifact_id)
    IN IF m # NoArtifact /\ m.file_path # NonePath /\ m.file_path \in fs
       THEN m.file_path ELSE NonePath

(* ---------------------------- audit.py -------------------------------- *)

(* The audit directory is a set of log files, each a sequence of lines.   *)
(* Sizes are counted in lines: every JSON line is taken to be equally     *)
(* long, and rotation_size_mb is given in that unit.                      *)

\* a log file name: audit_<yyyymm>.jsonl (n = 0), audit_<yyyymm>.<n>.jsonl (n > 0)
LogName(month, n) == [yyyymm |-> month, n |-> n]

\* strftime("%Y%m"): the calendar month a time falls in; a month lasts two ticks
yyyymm(now) == now \div 2

\* _get_current_log_path
get_current_log_path(now) == LogName(yyyymm(now), 0)

\* rotation_size_mb when the caller passes none: more than a bounded run writes
DefaultRotationSize == 100

\* AuditTrail(audit_path, rotation_size_mb) on an empty directory
AuditTrail(rotation_size_mb, now) ==
    [files |-> <<>>,
     current_log |-> get_current_log_path(now),
     rotation_size_mb |-> rotation_size_mb]

\* st_size of a log file, in lines
log_size(lines) == Len(lines)

\* _should_rotate as it would be with ">" for ">="
should_rotate_strictly(log) ==
    /\ log.current_log \in DOMAIN log.files
    /\ log_size(log.files[log.current_log]) > log.rotation_size_mb

\* _should_rotate
should_rotate(log) ==
    /\ log.current_log \in DOMAIN log.files
    /\ log_size(log.files[log.current_log]) >= log.rotation_size_mb

\* the rotation number as it would be if the search always stopped at 1
rotation_num_first(files, base_name) == 1

\* the loop of _rotate_log: the first n >= 1 whose rotated name does not exist
rotation_num(files, base_name) ==
    CHOOSE n \in 1..(Cardinality(DOMAIN files) + 1) :
        /\ LogName(base_name, n) \notin DOMAIN files
        /\ \A k \in 1..(n - 1) : LogName(base_name, k) \in DOMAIN files

\* Path.rename: the file is known under the new name only; a file that
\* already has that name is replaced
rename(files, old, new) ==
    [f \in (DOMAIN files \ {old}) \cup {new} |-> IF f = new THEN files[old] ELSE files[f]]

\* _rotate_log; now is the datetime.now() of _get_current_log_path
rotate_log(log, now) ==
    IF log.current_log \notin DOMAIN log.files THEN log
    ELSE LET base_name == log.current_log.yyyymm
             rotated_path == LogName(base_name, rotation_num(log.files, base_name))
         IN [log EXCEPT !.files = rename(log.files, log.current_log, rotated_path),
                        !.current_log = get_current_log_path(now)]

\* open(current_log, 'a') and the write of one line
append_line(files, name, line) ==
    [f \in DOMAIN files \cup {name} |->
        IF f = name
        THEN (IF name \in DOMAIN files THEN Append(files[name], line) ELSE <<line>>)
        ELSE files[f]]

\* _write_entry, the whole of it under the audit lock
write_entry(log, entry, now) ==
    LET l == IF should_rotate(log) THEN rotate_log(log, now) ELSE log
    IN [l EXCEPT !.files = append_line(l.files, l.current_log, entry)]

\* file a was written before file b: an earlier month, or the same month
\* and rotated out earlier (the active file is the youngest of its month)
Older(a, b) ==
    \/ a.yyyymm < b.yyyymm
    \/ a.yyyymm = b.yyyymm /\ a.n # 0 /\ (b.n = 0 \/ a.n < b.n)

\* the lines of the given files, oldest file first
RECURSIVE LinesOf(_, _)
LinesOf(files, names) ==
    IF names = {} THEN <<>>
    ELSE LET first == CHOOSE a \in names : \A b \in names \ {a} : Older(a, b)
         IN files[first] \o LinesOf(files, names \ {first})

\* every line of the audit directory, in the order written
Entries(log) == LinesOf(log.files, DOMAIN log.files)

\* uuid4() of a new entry: a value no line of the log carries
new_entry_id(log) == Len(Entries(log)) + 1

\* log_operation
log_operation(log, now, operation, action, artifact_id, user, module, details, success, error_message) ==
    write_entry(log, AuditEntry(new_entry_id(log), now, operation, action, artifact_id,
                                user, module, details, success, error_message), now)

\* a line json.loads rejects (JSONDecodeError)
NotJson == [corrupt |-> "not_json"]

\* a line json.loads accepts that is no audit record: the JSON object {}
NotARecord == [corrupt |-> "not_a_record"]

is_record(line) == "entry_id" \in DOMAIN line

\* query_audit_trail called with no filter and no limit
NoFilter ==
    [start_time |-> NoneInt, end_time |-> NoneInt, operation |-> NoneStr,
     action |-> NoneStr, artifact_id |-> NoneId, user |-> NoneStr, module |-> NoneStr,
     success |-> [given |-> FALSE], limit |-> NoneInt]

\* the decimal digits of a rotation number, as they stand in the file name
digits(n) == IF n < 10 THEN <<n>> ELSE <<n \div 10, n % 10>>

\* "<a>.jsonl" < "<b>.jsonl" as strings: '.' sorts before every digit
suffix_less(a, b) ==
    LET da == digits(a)
        db == digits(b)
    IN \/ da[1] < db[1]
       \/ da[1] = db[1] /\ Len(da) < Len(db)
       \/ da[1] = db[1] /\ Len(da) = 2 /\ Len(db) = 2 /\ da[2] < db[2]

\* a < b in the order of sorted(): the file names compared as strings
name_less(a, b) ==
    \/ a.yyyymm < b.yyyymm
    \/ a.yyyymm = b.yyyymm /\ a.n # 0 /\ (b.n = 0 \/ suffix_less(a.n, b.n))

\* the file loop as it would be if only the active month's unrotated file
\* were globbed
lines_of_unrotated(files, names) ==
    IF {a \in names : a.n = 0} = {} THEN <<>>
    ELSE files[CHOOSE a \in names : a.n = 0 /\ \A b \in names : b.yyyymm <= a.yyyymm]

\* the lines of the files in the order sorted(glob("audit_*.jsonl"), reverse=True)
\* reads them
RECURSIVE lines_newest_first(_, _)
lines_newest_first(files, names) ==
    IF names = {} THEN <<>>
    ELSE LET first == CHOOSE a \in names : \A b \in names \ {a} : name_less(b, a)
         IN files[first] \o lines_newest_first(files, names \ {first})

\* some filter of f makes the loop body read a key of the entry
reads_a_key(f) ==
    \/ f.start_time # NoneInt \/ f.end_time # NoneInt
    \/ f.operation # NoneStr \/ f.action # NoneStr
    \/ f.artifact_id # NoneId
    \/ f.user # NoneStr \/ f.module # NoneStr
    \/ f.success.given

\* the chain of "if ...: continue" tests, for a well-formed entry
passes_filters(entry, f) ==
    /\ ~(f.start_time # NoneInt /\ entry.timestamp < f.start_time)
    /\ ~(f.end_time # NoneInt /\ entry.timestamp > f.end_time)
    /\ ~(f.operation # NoneStr /\ entry.operation # f.operation)
    /\ ~(f.action # NoneStr /\ entry.action # f.action)
    /\ ~(f.artifact_id # NoneId /\ entry.artifact_id # f.artifact_id)
    /\ ~(f.user # NoneStr /\ entry.user # f.user)
    /\ ~(f.module # NoneStr /\ entry.module # f.module)
    /\ ~(f.success.given /\ entry.success # f.success.val)

\* the loop of query_audit_trail over the lines still to read; entries is
\* the list built so far
RECURSIVE scan_lines(_, _, _)
scan_lines(lines, f, entries) ==
    IF lines = <<>> THEN [result |-> entries, raised |-> NoneStr]
    ELSE LET line == Head(lines)
         IN IF line = NotJson
            THEN scan_lines(Tail(lines), f, entries)
            ELSE IF ~is_record(line) /\ reads_a_key(f)
            THEN [result |-> <<>>, raised |-> "KeyError"]
            ELSE IF is_record(line) /\ ~passes_filters(line, f)
            THEN scan_lines(Tail(lines), f, entries)
            ELSE LET more == Append(entries, line)
                 IN IF f.limit # NoneInt /\ f.limit # 0 /\ Len(more) >= f.limit
                    THEN [result |-> more, raised |-> NoneStr]
                    ELSE scan_lines(Tail(lines), f, more)

\* query_audit_trail
query_audit_trail(log, f) ==
    scan_lines(lines_newest_first(log.files, DOMAIN log.files), f, <<>>)

\* get_artifact_history
get_artifact_history(log, artifact_id) ==
    query_audit_trail(log, [NoFilter EXCEPT !.artifact_id = artifact_id])

\* get_error_summary with no time range: the counts get_statistics reads
get_error_summary(log) ==
    LET errors == query_audit_trail(log, [NoFilter EXCEPT !.success = [given |-> TRUE, val |-> FALSE]])
    IN [raised |-> errors.raised,
        total_errors |-> Len(errors.result),
        errors_by_operation |->
            [op \in {errors.result[k].operation : k \in 1..Len(errors.result)} |->
                Cardinality({k \in 1..Len(errors.result) : errors.result[k].operation = op})]]

(* ------------------------------ state --------------------------------- *)

VARIABLES
    enable_audit,   \* ArtifactManager.enable_audit
    auto_cleanup,   \* ArtifactManager.auto_cleanup
    metadata,       \* storage/metadata/<id>.json, artifact id -> record
    files,          \* the files present under storage/artifacts/
    temp,           \* whether storage/temp holds anything
    audit,          \* the AuditTrail object and the log files of its directory
    runs,           \* every ProcessingRun object created, by run id
    current_run,    \* ArtifactManager.current_run: a run id or NoneId
    clock,          \* datetime.now(); time passes between two calls
    next_uuid,      \* artifact ids handed out so far
    ncalls,         \* manager calls started so far
    call_limit,     \* the number of calls the caller's program makes
    ret,            \* the last whole call: operation, arguments, outcome
    lock,           \* ArtifactManager._lock: the holding thread or NoneId
    pc,             \* per thread: position inside its current call
    local           \* per thread: arguments and local variables of its call

vars == <<enable_audit, auto_cleanup, metadata, files, temp, audit, runs,
          current_run, clock, next_uuid, ncalls, call_limit, ret, lock, pc, local>>

store_vars == <<metadata, files, temp>>
config_vars == <<enable_audit, auto_cleanup, call_limit>>
thread_vars == <<lock, pc, local>>

Threads == 1..NumThreads

NoCall == [op |-> "none"]

\* ArtifactManager.__init__ on an empty base path, with the default
\* enable_audit=True and auto_cleanup=False
Init ==
    /\ enable_audit = TRUE
    /\ auto_cleanup = FALSE
    /\ metadata = <<>>
    /\ files = {}
    /\ temp = FALSE
    /\ audit = AuditTrail(DefaultRotationSize, 0)
    /\ runs = <<>>
    /\ current_run = NoneId
    /\ clock = 0
    /\ next_uuid = 0
    /\ ncalls = 0
    /\ call_limit = MaxCalls
    /\ ret = NoCall
    /\ lock = NoneId
    /\ pc = [t \in Threads |-> "idle"]
    /\ local = [t \in Threads |-> NoCall]

\* os.getenv("USER")
USER == "user"

(* ------------------------ environment steps --------------------------- *)

\* a stored file is removed from outside the manager
DeleteFileOutOfBand ==
    /\ \E p \in files : files' = files \ {p}
    /\ UNCHANGED <<config_vars, metadata, temp, audit, runs, current_run, clock,
                   next_uuid, ncalls, ret, thread_vars>>

(* --------------------------- call inputs ------------------------------ *)

\* artifact types passed to create_artifact
TypeInputs == {"video_raw", "video_keypoints"}

\* source_path arguments: None, a Path (with what lies at that path), or a str
NoSource == [shape |-> "None"]

PathTo(kind, content) ==
    [shape |-> "Path", kind |-> kind, name |-> <<"a">>, content |-> content]

SourcePathInputs ==
    {[shape |-> "str"], PathTo("file", ""), PathTo("symlink", "ab"),
     PathTo("dangling_symlink", ""), PathTo("missing", ""), PathTo("directory", "")}

\* artifact ids a caller can name: those handed out so far, and one never issued
KnownIds == 0..next_uuid

\* source_artifacts arguments of create_artifact
SourceListInputs ==
    {[shape |-> "None"], [shape |-> "str"]}
        \cup {[shape |-> "list", val |-> <<i>>] : i \in KnownIds}

\* metadata arguments of create_artifact
MetadataInputs ==
    {[shape |-> "None"], [shape |-> "list"], [shape |-> "dict", val |-> [run_id |-> 1]]}

\* the argument combinations create_artifact is called with
CreateInputs ==
    {[artifact_type |-> ty, source_path |-> PathTo("file", "ab"),
      source_artifacts |-> [shape |-> "None"], processing_module |-> "test_module",
      metadata |-> [shape |-> "None"]] : ty \in TypeInputs}
    \cup
    {[artifact_type |-> "video_raw", source_path |-> sp,
      source_artifacts |-> [shape |-> "None"], processing_module |-> "test_module",
      metadata |-> [shape |-> "None"]] : sp \in SourcePathInputs}
    \cup
    {[artifact_type |-> "video_keypoints", source_path |-> NoSource, source_artifacts |-> sa,
      processing_module |-> NoneStr, metadata |-> [shape |-> "None"]] :
        sa \in SourceListInputs}
    \cup
    {[artifact_type |-> "video_keypoints", source_path |-> NoSource,
      source_artifacts |-> [shape |-> "None"], processing_module |-> NoneStr,
      metadata |-> md] : md \in MetadataInputs \ {[shape |-> "None"]}}

\* (status, error_message) arguments of update_artifact_status
StatusUpdateInputs ==
    {<<"in_progress", NoneStr>>, <<"completed", NoneStr>>, <<"failed", "boom">>,
     <<"archived", NoneStr>>, <<"pending", NoneStr>>}

\* status arguments of end_processing_run
RunStatusInputs == {"completed", "failed", "pending"}

\* days_old arguments of cleanup_old_artifacts
DaysInputs == {0, 1}

\* source_artifact_ids arguments of link_artifacts: an id a caller can name,
\* or the first artifact's id followed by one that has no record
LinkSourceInputs == {<<i>> : i \in KnownIds} \cup {<<1, 0>>}

(* --------------------------- manager.py ------------------------------- *)

\* "if x" is false: None, and the empty str, list, tuple and dict
falsy(x) == x.shape = "None" \/ ("empty" \in DOMAIN x /\ x.empty)

\* the three "if x and not isinstance(x, T): raise" checks at the head of
\* create_artifact
valid_shapes(a) ==
    /\ ~(~falsy(a.source_path) /\ a.source_path.shape # "Path")
    /\ ~(~falsy(a.metadata) /\ a.metadata.shape # "dict")
    /\ ~(~falsy(a.source_artifacts) /\ a.source_artifacts.shape # "list")

\* source_artifacts or []
list_or_empty(sa) == IF falsy(sa) THEN <<>> ELSE sa.val

\* metadata or {}
dict_or_empty(md) == IF falsy(md) THEN EmptyBag ELSE md.val

\* the ArtifactMetadata object create_artifact builds from its arguments
new_artifact(aid, a, now) ==
    ArtifactMetadata(aid, a.artifact_type, list_or_empty(a.source_artifacts),
                     a.processing_module, dict_or_empty(a.metadata), now)

\* the failure branch of create_artifact as it would be without its audit call
storage_failure_entry_skipped(log, now, aid, a, err) == log

\* audit entry of the failure branch of create_artifact
storage_failure_entry(log, now, aid, a, err) ==
    log_operation(log, now, "artifact_storage", "store", aid, NoneStr,
                  a.processing_module, EmptyBag, FALSE, err)

\* audit entry at the end of create_artifact
creation_entry(log, now, aid, a) ==
    log_operation(log, now, "artifact_creation", "create", aid, NoneStr,
                  a.processing_module,
                  [type |-> a.artifact_type, source_artifacts |-> a.source_artifacts,
                   has_file |-> a.source_path.shape # "None"],
                  TRUE, NoneStr)

\* audit entry of update_artifact_status
update_entry(log, now, aid, status, error_message) ==
    log_operation(log, now, "artifact_update", "update_status", aid, NoneStr, NoneStr,
                  [new_status |-> status, error_message |-> error_message],
                  status # "failed", NoneStr)

\* the audit entry of get_artifact as it would be if it did not pass the
\* outcome of the lookup
access_entry_always_success(log, now, aid, found) ==
    log_operation(log, now, "artifact_access", "get_metadata", aid, NoneStr, NoneStr,
                  EmptyBag, TRUE, NoneStr)

\* audit entry of get_artifact
access_entry(log, now, aid, found) ==
    log_operation(log, now, "artifact_access", "get_metadata", aid, NoneStr, NoneStr,
                  EmptyBag, found, NoneStr)

\* audit entry of get_artifact_file
file_access_entry(log, now, aid, found) ==
    log_operation(log, now, "artifact_access", "get_file", aid, NoneStr, NoneStr,
                  EmptyBag, found, NoneStr)

\* link_artifacts as it would be without its audit call
link_entry_unlogged(log, now, aid, sources, relationship) == log

\* audit entry of link_artifacts
link_entry(log, now, aid, sources, relationship) ==
    log_operation(log, now, "artifact_link", "create_relationship", aid, NoneStr, NoneStr,
                  [source_artifacts |-> sources, relationship |-> relationship],
                  TRUE, NoneStr)

\* audit entry of start_processing_run
run_start_entry(log, now, run) ==
    log_operation(log, now, "processing_run", "start", NoneId, USER, NoneStr,
                  [run_id |-> run.run_id, configuration |-> run.configuration],
                  TRUE, NoneStr)

\* the audit entry of end_processing_run as it would be if it were always
\* logged as a success
run_end_entry_always_success(log, now, run, status) ==
    log_operation(log, now, "processing_run", "end", NoneId, USER, NoneStr,
                  [run_id |-> run.run_id, status |-> status,
                   duration |-> run.completed_at - run.started_at,
                   input_artifacts |-> run.input_artifacts,
                   output_artifacts |-> run.output_artifacts],
                  TRUE, NoneStr)

\* audit entry of end_processing_run
run_end_entry(log, now, run, status) ==
    log_operation(log, now, "processing_run", "end", NoneId, USER, NoneStr,
                  [run_id |-> run.run_id, status |-> status,
                   duration |-> run.completed_at - run.started_at,
                   input_artifacts |-> run.input_artifacts,
                   output_artifacts |-> run.output_artifacts],
                  status = "completed", NoneStr)

\* link_artifacts as it would be if it skipped the ids the list already holds
linked_artifact_without_duplicates(artifact, sources, relationship) ==
    LET held == {artifact.source_artifacts[k] : k \in 1..Len(artifact.source_artifacts)}
        is_new(x) == x \notin held
    IN [artifact EXCEPT
           !.source_artifacts = @ \o SelectSeq(sources, is_new),
           !.metadata = [k \in DOMAIN @ \cup {relationship \o "_artifacts"} |->
                            IF k = relationship \o "_artifacts" THEN sources ELSE @[k]]]

\* the output artifact as link_artifacts rewrites it
linked_artifact(artifact, sources, relationship) ==
    [artifact EXCEPT
        !.source_artifacts = @ \o sources,
        !.metadata = [k \in DOMAIN @ \cup {relationship \o "_artifacts"} |->
                         IF k = relationship \o "_artifacts" THEN sources ELSE @[k]]]

\* the append as it would be if it went to the oldest run, not the current one
append_output_to_first(rs, rid, aid) ==
    [rs EXCEPT ![1].output_artifacts = Append(@, aid)]

\* the append as it would be if it were an insert(0, ...)
append_output_in_front(rs, rid, aid) ==
    [rs EXCEPT ![rid].output_artifacts = <<aid>> \o @]

\* self.current_run.output_artifacts.append(artifact_id)
append_output(rs, rid, aid) ==
    [rs EXCEPT ![rid].output_artifacts = Append(@, aid)]

\* storage.cleanup_temp(): the temp directory is emptied
cleanup_temp(t) == FALSE

\* end_processing_run as it would be if the cleanup came before the test
\* for an active run
temp_after_end_unguarded(t, cleanup, active) == IF cleanup THEN cleanup_temp(t) ELSE t

\* the temp directory after end_processing_run: the cleanup is reached only
\* past the early return, with a run active
temp_after_end(t, cleanup, active) == IF active /\ cleanup THEN cleanup_temp(t) ELSE t

(* ------------- whole calls of a single caller (manager.py) ------------ *)

\* a whole call leaves the configuration and the threads alone; the next
\* call reads a later time
seq_frame == clock' = clock + 1 /\ UNCHANGED <<config_vars, thread_vars>>

\* start_processing_run
start_processing_run ==
    /\ ncalls < call_limit
    /\ Len(runs) < MaxRuns
    /\ LET run == ProcessingRun(Len(runs) + 1, "cfg", clock)
       IN /\ runs' = Append(runs, run)
          /\ current_run' = run.run_id
          /\ audit' = IF enable_audit THEN run_start_entry(audit, clock, run) ELSE audit
          /\ ret' = [op |-> "start_processing_run", run_id |-> run.run_id, raised |-> NoneStr]
    /\ ncalls' = ncalls + 1
    /\ UNCHANGED <<store_vars, next_uuid>>
    /\ seq_frame

\* end_processing_run
end_processing_run(status) ==
    /\ ncalls < call_limit
    /\ temp' = temp_after_end(temp, auto_cleanup, current_run # NoneId)
    /\ IF current_run = NoneId
       THEN /\ ret' = [op |-> "end_processing_run", run_id |-> NoneId, status |-> status,
                       raised |-> NoneStr]
            /\ UNCHANGED <<runs, current_run, audit, metadata, files>>
       ELSE LET run == complete(runs[current_run], status, clock)
            IN /\ runs' = [runs EXCEPT ![current_run] = run]
               /\ audit' = IF enable_audit THEN run_end_entry(audit, clock, run, status)
                           ELSE audit
               /\ current_run' = NoneId
               /\ ret' = [op |-> "end_processing_run", run_id |-> run.run_id,
                          status |-> status, raised |-> NoneStr]
               /\ UNCHANGED <<metadata, files>>
    /\ ncalls' = ncalls + 1
    /\ UNCHANGED next_uuid
    /\ seq_frame

\* create_artifact
create_artifact(a) ==
    /\ ncalls < call_limit
    /\ ncalls' = ncalls + 1
    /\ seq_frame
    /\ IF ~valid_shapes(a)
       THEN /\ ret' = [op |-> "create_artifact", artifact_id |-> NoneId, args |-> a,
                       raised |-> "ValueError", result |-> NoArtifact]
            /\ UNCHANGED <<store_vars, audit, runs, current_run, next_uuid>>
       ELSE
         /\ next_uuid < MaxArtifacts
         /\ next_uuid' = next_uuid + 1
         /\ UNCHANGED <<temp, current_run>>
         /\ LET aid == next_uuid + 1
                artifact == new_artifact(aid, a, clock)
                err == IF ~falsy(a.source_path) THEN store_error(a.source_path)
                       ELSE NoneStr
            IN IF err # NoneStr
               THEN \* store_artifact raised: failure entry, re-raise
                    /\ audit' = IF enable_audit
                                THEN storage_failure_entry(audit, clock, aid, a, err)
                                ELSE audit
                    /\ ret' = [op |-> "create_artifact", artifact_id |-> aid, args |-> a,
                               raised |-> err, result |-> NoArtifact]
                    /\ UNCHANGED <<metadata, files, runs>>
               ELSE
                 LET has_file == ~falsy(a.source_path)
                     \* the object store_artifact saved, before update_status runs
                     stored == stored_artifact(artifact, a.source_path)
                     returned == update_status(IF has_file THEN stored ELSE artifact,
                                               "completed", NoneStr, clock)
                 IN /\ metadata' = save_metadata(metadata,
                                                 IF has_file THEN stored ELSE returned)
                    /\ files' = IF has_file THEN files \cup {stored.file_path} ELSE files
                    /\ runs' = IF current_run # NoneId
                               THEN append_output(runs, current_run, aid) ELSE runs
                    /\ audit' = IF enable_audit THEN creation_entry(audit, clock, aid, a)
                                ELSE audit
                    /\ ret' = [op |-> "create_artifact", artifact_id |-> aid, args |-> a,
                               raised |-> NoneStr, result |-> returned]

\* update_artifact_status
update_artifact_status(artifact_id, status, error_message) ==
    /\ ncalls < call_limit
    /\ ncalls' = ncalls + 1
    /\ seq_frame
    /\ UNCHANGED <<files, temp, runs, current_run, next_uuid>>
    /\ LET artifact == load_metadata(metadata, artifact_id)
       IN IF artifact = NoArtifact
          THEN /\ ret' = [op |-> "update_artifact_status", artifact_id |-> artifact_id,
                          status |-> status, error_message |-> error_message,
                          found |-> FALSE, raised |-> NoneStr]
               /\ UNCHANGED <<metadata, audit>>
          ELSE /\ metadata' = save_metadata(metadata,
                                  update_status(artifact, status, error_message, clock))
               /\ audit' = IF enable_audit
                           THEN update_entry(audit, clock, artifact_id, status, error_message)
                           ELSE audit
               /\ ret' = [op |-> "update_artifact_status", artifact_id |-> artifact_id,
                          status |-> status, error_message |-> error_message,
                          found |-> TRUE, raised |-> NoneStr]

\* get_artifact
get_artifact(artifact_id) ==
    /\ ncalls < call_limit
    /\ ncalls' = ncalls + 1
    /\ seq_frame
    /\ UNCHANGED <<store_vars, runs, current_run, next_uuid>>
    /\ LET artifact == load_metadata(metadata, artifact_id)
           err == load_error(metadata, artifact_id)
       IN IF err # NoneStr
          THEN \* load_metadata raised inside the with block: no audit entry
               /\ audit' = audit
               /\ ret' = [op |-> "get_artifact", artifact_id |-> artifact_id,
                          result |-> NoArtifact, raised |-> err]
          ELSE /\ audit' = IF enable_audit
                           THEN access_entry(audit, clock, artifact_id, artifact # NoArtifact)
                           ELSE audit
               /\ ret' = [op |-> "get_artifact", artifact_id |-> artifact_id,
                          result |-> artifact, raised |-> NoneStr]

\* get_artifact_file
get_artifact_file(artifact_id) ==
    /\ ncalls < call_limit
    /\ ncalls' = ncalls + 1
    /\ seq_frame
    /\ UNCHANGED <<store_vars, runs, current_run, next_uuid>>
    /\ LET path == retrieve_artifact(metadata, files, artifact_id)
       IN /\ audit' = IF enable_audit
                      THEN file_access_entry(audit, clock, artifact_id, path # NonePath)
                      ELSE audit
          /\ ret' = [op |-> "get_artifact_file", artifact_id |-> artifact_id,
                     result |-> path, raised |-> NoneStr]

\* link_artifacts, with the get_artifact call it starts with
link_artifacts(source_artifact_ids, output_artifact_id, relationship) ==
    /\ ncalls < call_limit
    /\ ncalls' = ncalls + 1
    /\ seq_frame
    /\ UNCHANGED <<files, temp, runs, current_run, next_uuid>>
    /\ LET output_artifact == load_metadata(metadata, output_artifact_id)
           accessed == IF enable_audit
                       THEN access_entry(audit, clock, output_artifact_id,
                                         output_artifact # NoArtifact)
                       ELSE audit
       IN IF output_artifact = NoArtifact
          THEN /\ audit' = accessed
               /\ ret' = [op |-> "link_artifacts", artifact_id |-> output_artifact_id,
                          sources |-> source_artifact_ids, relationship |-> relationship,
                          found |-> FALSE, raised |-> NoneStr]
               /\ UNCHANGED metadata
          ELSE /\ metadata' = save_metadata(metadata,
                                  linked_artifact(output_artifact, source_artifact_ids,
                                                  relationship))
               /\ audit' = IF enable_audit
                           THEN link_entry(accessed, clock, output_artifact_id,
                                           source_artifact_ids, relationship)
                           ELSE audit
               /\ ret' = [op |-> "link_artifacts", artifact_id |-> output_artifact_id,
                          sources |-> source_artifact_ids, relationship |-> relationship,
                          found |-> TRUE, raised |-> NoneStr]

\* "if aid in visited" as it would be if the visited set were never consulted
seen_never(aid, visited) == FALSE

\* build_lineage: "if aid in visited"
seen(aid, visited) == aid \in visited

\* the node of an id without a record as it would be without its mark
not_found_node_unmarked(aid) == [artifact_id |-> aid]

\* build_lineage: the node returned for an id that load_metadata does not find
not_found_node(aid) == [artifact_id |-> aid, not_found |-> TRUE]

\* the visited set as it would be if each source got a copy of its own
visited_of_copy(before, after) == before

\* the visited set a source is traversed with: the one set object, as the
\* traversal of the sources before it left it
visited_shared(before, after) == after

\* build_lineage of get_artifact_lineage. visited and the audit log are
\* threaded through the traversal; depth counts the nested calls, and a call
\* nested deeper than the interpreter's recursion limit raises.
RECURSIVE build_lineage(_, _, _, _, _, _, _)
RECURSIVE build_sources(_, _, _, _, _, _, _)
build_lineage(md, audited, now, aid, visited, log, depth) ==
    IF depth > RecursionLimit
    THEN [tree |-> NoArtifact, visited |-> visited, log |-> log, raised |-> "RecursionError"]
    ELSE IF seen(aid, visited)
    THEN [tree |-> [artifact_id |-> aid, circular_reference |-> TRUE],
          visited |-> visited, log |-> log, raised |-> NoneStr]
    ELSE LET artifact == load_metadata(md, aid)
             accessed == IF audited THEN access_entry(log, now, aid, artifact # NoArtifact)
                         ELSE log
         IN IF artifact = NoArtifact
            THEN [tree |-> not_found_node(aid),
                  visited |-> visited \cup {aid}, log |-> accessed, raised |-> NoneStr]
            ELSE LET s == build_sources(md, audited, now, artifact.source_artifacts,
                                        visited \cup {aid}, accessed, depth + 1)
                 IN [tree |-> [artifact_id |-> aid,
                               type |-> artifact.artifact_type,
                               status |-> artifact.status,
                               created_at |-> artifact.created_at,
                               processing_module |-> artifact.processing_module,
                               sources |-> s.trees],
                     visited |-> s.visited, log |-> s.log, raised |-> s.raised]

\* the loop "for source_id in artifact.source_artifacts" of build_lineage
build_sources(md, audited, now, source_ids, visited, log, depth) ==
    IF source_ids = <<>>
    THEN [trees |-> <<>>, visited |-> visited, log |-> log, raised |-> NoneStr]
    ELSE LET h == build_lineage(md, audited, now, Head(source_ids), visited, log, depth)
         IN IF h.raised # NoneStr
            THEN [trees |-> <<>>, visited |-> h.visited, log |-> h.log, raised |-> h.raised]
            ELSE LET r == build_sources(md, audited, now, Tail(source_ids),
                                        visited_shared(visited, h.visited), h.log, depth)
                 IN [trees |-> <<h.tree>> \o r.trees, visited |-> r.visited,
                     log |-> r.log, raised |-> r.raised]

\* get_artifact_lineage
get_artifact_lineage(artifact_id) ==
    /\ ncalls < call_limit
    /\ ncalls' = ncalls + 1
    /\ seq_frame
    /\ UNCHANGED <<store_vars, runs, current_run, next_uuid>>
    /\ LET r == build_lineage(metadata, enable_audit, clock, artifact_id, {}, audit, 1)
       IN /\ audit' = r.log
          /\ ret' = [op |-> "get_artifact_lineage", artifact_id |-> artifact_id,
                     result |-> r.tree, raised |-> r.raised]

\* storage.list_artifacts: the records read from metadata/*.json that pass
\* the filters (the order of the listing is the order of the directory scan)
storage_list_artifacts(md, artifact_type, status) ==
    {md[i] : i \in {j \in DOMAIN md :
                      /\ artifact_type # NoneStr => md[j].artifact_type = artifact_type
                      /\ status # NoneStr => md[j].status = status}}

\* manager.list_artifacts as it would be without the run_id filter
list_artifacts_unfiltered_by_run(md, artifact_type, status, run_id) ==
    storage_list_artifacts(md, artifact_type, status)

\* manager.list_artifacts; a.metadata.get("run_id") is None without the key
list_artifacts(md, artifact_type, status, run_id) ==
    LET artifacts == storage_list_artifacts(md, artifact_type, status)
    IN IF run_id # NoneId
       THEN {a \in artifacts : "run_id" \in DOMAIN a.metadata /\ a.metadata.run_id = run_id}
       ELSE artifacts

\* sum of the st_size of the given stored files
RECURSIVE total_size(_, _)
total_size(md, paths) ==
    IF paths = {} THEN 0
    ELSE LET p == CHOOSE q \in paths : TRUE
         IN md[p.aid].file_size + total_size(md, paths \ {p})

\* get_storage_stats
get_storage_stats(md, fs) ==
    LET artifact_counts == [ty \in ArtifactType |-> Cardinality({p \in fs : p.dir = ty})]
    IN [total_size_bytes |-> total_size(md, fs),
        artifact_counts |-> artifact_counts,
        total_artifacts |-> Cardinality(fs)]

\* the dictionary get_statistics returns
statistics(md, fs, log, audited) ==
    LET all_artifacts == storage_list_artifacts(md, NoneStr, NoneStr)
        count(field, v) == Cardinality({a \in all_artifacts : a[field] = v})
        artifacts == [total |-> Cardinality(all_artifacts),
                      by_status |-> [v \in {a.status : a \in all_artifacts} |->
                                        count("status", v)],
                      by_type |-> [v \in {a.artifact_type : a \in all_artifacts} |->
                                      count("artifact_type", v)]]
    IN IF audited
       THEN [storage |-> get_storage_stats(md, fs), artifacts |-> artifacts,
             audit |-> [total_errors |-> get_error_summary(log).total_errors,
                        errors_by_operation |-> get_error_summary(log).errors_by_operation]]
       ELSE [storage |-> get_storage_stats(md, fs), artifacts |-> artifacts]

\* get_statistics
get_statistics ==
    /\ ncalls < call_limit
    /\ ncalls' = ncalls + 1
    /\ seq_frame
    /\ UNCHANGED <<store_vars, audit, runs, current_run, next_uuid>>
    /\ ret' = IF scan_error(metadata) # NoneStr
              THEN [op |-> "get_statistics", raised |-> scan_error(metadata),
                    result |-> NoArtifact]
              ELSE [op |-> "get_statistics", raised |-> NoneStr,
                    result |-> statistics(metadata, files, audit, enable_audit)]

\* manager.list_artifacts, called: it takes no lock and writes no audit entry
list_artifacts_call(artifact_type, status, run_id) ==
    /\ ncalls < call_limit
    /\ ncalls' = ncalls + 1
    /\ seq_frame
    /\ UNCHANGED <<store_vars, audit, runs, current_run, next_uuid>>
    /\ ret' = IF scan_error(metadata) # NoneStr
              THEN [op |-> "list_artifacts", artifact_type |-> artifact_type,
                    status |-> status, run_id |-> run_id,
                    raised |-> scan_error(metadata), result |-> NoArtifact]
              ELSE [op |-> "list_artifacts", artifact_type |-> artifact_type,
                    status |-> status, run_id |-> run_id, raised |-> NoneStr,
                    result |-> list_artifacts(metadata, artifact_type, status, run_id)]

\* the orders in which a directory scan (glob) can yield the ids of S
Orderings(S) ==
    {o \in [1..Cardinality(S) -> S] : \A i, j \in 1..Cardinality(S) : o[i] = o[j] => i = j}

\* audit entries of cleanup_old_artifacts for the ids of order, appended to log
RECURSIVE cleanup_entries(_, _, _, _)
cleanup_entries(log, now, md, order) ==
    IF order = <<>> THEN log
    ELSE cleanup_entries(
            log_operation(log, now, "artifact_cleanup", "remove_old", Head(order), NoneStr,
                          NoneStr, [age_days |-> now - md[Head(order)].created_at],
                          TRUE, NoneStr),
            now, md, Tail(order))

\* cleanup_old_artifacts as it would be without the test against the cutoff
cleanup_targets_of_any_age(md, fs, cutoff_date) ==
    {i \in DOMAIN md : md[i].file_path # NonePath /\ md[i].file_path \in fs}

\* the artifacts cleanup_old_artifacts unlinks: older than the cutoff, file present
cleanup_targets(md, fs, cutoff_date) ==
    {i \in DOMAIN md : /\ md[i].created_at < cutoff_date
                       /\ md[i].file_path # NonePath
                       /\ md[i].file_path \in fs}

\* cleanup_old_artifacts
cleanup_old_artifacts(days_old) ==
    /\ ncalls < call_limit
    /\ ncalls' = ncalls + 1
    /\ seq_frame
    /\ UNCHANGED <<metadata, temp, runs, current_run, next_uuid>>
    /\ LET targets == cleanup_targets(metadata, files, clock - days_old)
       IN /\ files' = files \ {metadata[i].file_path : i \in targets}
          /\ \E order \in Orderings(targets) :
                audit' = IF enable_audit THEN cleanup_entries(audit, clock, metadata, order)
                         ELSE audit
          /\ ret' = [op |-> "cleanup_old_artifacts", days_old |-> days_old,
                     result |-> Cardinality(targets), raised |-> NoneStr]

\* one manager call by the single caller, or a step of the environment
Next ==
    \/ DeleteFileOutOfBand
    \/ start_processing_run
    \/ \E status \in RunStatusInputs : end_processing_run(status)
    \/ \E a \in CreateInputs : create_artifact(a)
    \/ \E i \in KnownIds, u \in StatusUpdateInputs : update_artifact_status(i, u[1], u[2])
    \/ \E i \in KnownIds : get_artifact(i)
    \/ \E i \in KnownIds : get_artifact_file(i)
    \/ \E i \in KnownIds, s \in LinkSourceInputs : link_artifacts(s, i, "derived_from")
    \/ \E d \in DaysInputs : cleanup_old_artifacts(d)
    \/ \E i \in KnownIds : get_artifact_lineage(i)

Spec == Init /\ [][Next]_vars

(* ------------------- properties of the whole calls -------------------- *)

\* a step of Spec that is one manager call of the given operation
CallStep(op) == ncalls' = ncalls + 1 /\ ret'.op = op

\* the manager calls that the audit trail is said to record
AuditedOps ==
    {"start_processing_run", "end_processing_run", "create_artifact",
     "update_artifact_status", "get_artifact", "get_artifact_file", "link_artifacts"}

\* C4: with auditing enabled, every single call of startRun, endRun,
\* createArtifact, updateArtifactStatus, getArtifact, getArtifactFile and
\* linkArtifacts appends exactly one audit record, whatever its outcome.
C4_OneAuditRecordPerCall ==
    [][(enable_audit /\ \E op \in AuditedOps : CallStep(op))
          => Len(Entries(audit')) = Len(Entries(audit)) + 1]_vars

\* C5: after a successful createArtifact both the returned artifact and the
\* persisted metadata record of its id have status completed, with or
\* without a source file.
C5_CreatedIsCompleted ==
    [][(CallStep("create_artifact") /\ ret'.raised = NoneStr)
          => /\ ret'.result.status = "completed"
             /\ ret'.artifact_id \in DOMAIN metadata'
             /\ metadata'[ret'.artifact_id].status = "completed"]_vars

\* the call just made was a create_artifact whose store step had to fail
StoreStepFails(r) ==
    /\ r.op = "create_artifact"
    /\ valid_shapes(r.args)
    /\ r.args.source_path.shape = "Path"
    /\ r.args.source_path.kind # "file"

\* C6: when the store step of createArtifact fails the error reaches the
\* caller, no artifact is returned, and the call writes exactly one audit
\* entry: artifact_storage / store / success=false with the new artifact id
\* and the error message, and no artifact_creation entry.
C6_StoreFailureAudit ==
    [][(CallStep("create_artifact") /\ StoreStepFails(ret'))
          => /\ ret'.raised \notin {NoneStr, "ValueError"}
             /\ ret'.result = NoArtifact
             /\ Len(Entries(audit')) = Len(Entries(audit)) + 1
             /\ SubSeq(Entries(audit'), 1, Len(Entries(audit))) = Entries(audit)
             /\ LET e == Entries(audit')[Len(Entries(audit'))]
                IN /\ e.operation = "artifact_storage"
                   /\ e.action = "store"
                   /\ e.success = FALSE
                   /\ e.artifact_id = next_uuid'
                   /\ e.artifact_id \notin 0..next_uuid
                   /\ e.artifact_id = ret'.artifact_id
                   /\ e.error_message = ret'.raised]_vars

\* witness of C6: a createArtifact on a symbolic link has just failed
C6_Witness ==
    /\ ret.op = "create_artifact"
    /\ ret.raised = "Symlinks not allowed for security"
    /\ Len(Entries(audit)) >= 2
    /\ Entries(audit)[Len(Entries(audit))].operation = "artifact_storage"

C8_RunStatusClosed ==
    \A r \in DOMAIN runs :
        /\ runs[r].status \in {"in_progress", "completed", "failed"}
        /\ runs[r].completed_at # NoneInt => runs[r].status \in {"completed", "failed"}

\* C9: in every persisted record file_path, checksum and file_size are all
\* set or all null.
C9_FileFieldsTogether ==
    \A i \in DOMAIN metadata :
        /\ metadata[i].file_path # NonePath
              <=> (metadata[i].checksum # NoneStr /\ metadata[i].file_size # NoneInt)
        /\ metadata[i].file_path = NonePath
              => (metadata[i].checksum = NoneStr /\ metadata[i].file_size = NoneInt)

\* witness of C9: a record with an empty stored file went through a status
\* update and a cleanup that removed its file
C9_Witness ==
    /\ ret.op = "cleanup_old_artifacts"
    /\ ret.result = 1
    /\ \E i \in DOMAIN metadata :
          /\ metadata[i].file_path # NonePath
          /\ metadata[i].file_path \notin files
          /\ metadata[i].file_size = 0
          /\ metadata[i].status = "failed"

\* C10: retrieve(id) yields the stored path exactly when the record exists,
\* has a file_path and the file is present, and yields absent without
\* raising otherwise; removing a file leaves the record, which getArtifact
\* still returns.
C10_RetrieveIffRecordAndFile ==
    [][/\ CallStep("get_artifact_file")
          => LET i == ret'.artifact_id
                 present == /\ i \in DOMAIN metadata
                            /\ metadata[i].file_path # NonePath
                            /\ metadata[i].file_path \in files
             IN /\ ret'.raised = NoneStr
                /\ present => ret'.result = metadata[i].file_path
                /\ ~present => ret'.result = NonePath
       /\ CallStep("get_artifact")
          => /\ ret'.raised = NoneStr
             /\ ret'.artifact_id \in DOMAIN metadata
                   => ret'.result = metadata[ret'.artifact_id]
             /\ ret'.artifact_id \notin DOMAIN metadata => ret'.result = NoArtifact
       /\ files' # files /\ files' \subseteq files => metadata' = metadata]_vars

\* witness of C10: the file of an existing record is gone and the lookup of
\* its path has just answered absent
C10_Witness ==
    /\ ret.op = "get_artifact_file"
    /\ ret.result = NonePath
    /\ ret.artifact_id \in DOMAIN metadata
    /\ metadata[ret.artifact_id].file_path # NonePath
    /\ metadata[ret.artifact_id].file_path \notin files

\* the elements of a sequence
Elements(s) == {s[k] : k \in 1..Len(s)}

\* the fields of a record that are fixed when it is persisted
FrozenFields ==
    {"artifact_id", "artifact_type", "created_at", "file_path", "file_size", "checksum"}

\* C11: once an artifact is persisted its id, type, created_at, file_path,
\* file_size and checksum never change, whatever call or file removal
\* follows; the checksum is the one computed from the bytes at store time.
C11_PersistedFieldsFrozen ==
    [][/\ \A i \in DOMAIN metadata :
             /\ i \in DOMAIN metadata'
             /\ \A f \in FrozenFields : metadata'[i][f] = metadata[i][f]
       /\ \A i \in DOMAIN metadata' \ DOMAIN metadata :
             /\ metadata'[i].artifact_id = i
             /\ metadata'[i].file_path # NonePath
                   => metadata'[i].checksum =
                         calculate_checksum(ret'.args.source_path.content)]_vars

\* witness of C11: a record whose file is gone has just gone through a
\* status update at a later time than its creation
C11_Witness ==
    /\ ret.op = "update_artifact_status"
    /\ ret.found
    /\ LET m == metadata[ret.artifact_id]
       IN /\ m.file_path # NonePath
          /\ m.file_path \notin files
          /\ m.checksum = "sha256_ab"
          /\ m.updated_at > m.created_at

\* C12: every persisted record has updated_at >= created_at, and a status
\* update of an existing id never moves the persisted updated_at backwards
\* (the clock the calls read never runs backwards).
C12_UpdatedNotBeforeCreated ==
    /\ [](\A i \in DOMAIN metadata : metadata[i].updated_at >= metadata[i].created_at)
    /\ [][(CallStep("update_artifact_status") /\ ret'.found)
             => /\ metadata'[ret'.artifact_id].updated_at
                      >= metadata[ret'.artifact_id].updated_at
                /\ metadata'[ret'.artifact_id].updated_at >= clock]_vars

\* witness of C12: a record created after time 0 has been updated twice
C12_Witness ==
    /\ ret.op = "update_artifact_status"
    /\ ret.found
    /\ ncalls = 3
    /\ \E i \in DOMAIN metadata :
          /\ metadata[i].updated_at = 2
          /\ metadata[i].created_at = 0
          /\ metadata[i].status = "in_progress"

\* C13: after a status update of an existing artifact the persisted
\* error_message is set exactly when that update supplied an error message.
C13_ErrorMessageIffSupplied ==
    [][(CallStep("update_artifact_status") /\ ret'.found)
          => (metadata'[ret'.artifact_id].error_message # NoneStr
                 <=> ret'.error_message # NoneStr)]_vars

\* the nodes of a lineage tree, or of a list of them, in the order visited
RECURSIVE Preorder(_)
RECURSIVE PreorderAll(_)
Preorder(tree) ==
    IF "sources" \in DOMAIN tree THEN <<tree>> \o PreorderAll(tree.sources) ELSE <<tree>>

PreorderAll(trees) ==
    IF trees = <<>> THEN <<>> ELSE Preorder(Head(trees)) \o PreorderAll(Tail(trees))

\* in the tree the first occurrence of an id is looked up (expanded or
\* not_found) and each later one is a leaf marked circular_reference
SecondSeenIsCircular(tree) ==
    LET nodes == Preorder(tree)
    IN \A k \in 1..Len(nodes) :
          ("circular_reference" \in DOMAIN nodes[k])
             <=> (\E j \in 1..(k - 1) : nodes[j].artifact_id = nodes[k].artifact_id)

\* the lineage of id i as the store stands
LineageNow(i) == build_lineage(metadata, FALSE, clock, i, {}, audit, 1)

\* C18: getArtifactLineage terminates for every set of metadata records,
\* cyclic source lists included: it returns a tree for the id asked for,
\* looks each id up at most once, and renders an id seen a second time as
\* a leaf marked circular_reference.
C18_LineageTerminates ==
    /\ [](\A i \in KnownIds :
             /\ LineageNow(i).raised = NoneStr
             /\ LineageNow(i).tree.artifact_id = i
             /\ SecondSeenIsCircular(LineageNow(i).tree))
    /\ [][CallStep("get_artifact_lineage")
             => /\ ret'.raised = NoneStr
                /\ ret'.result = LineageNow(ret'.artifact_id).tree
                /\ Len(Entries(audit')) - Len(Entries(audit)) <= Cardinality(KnownIds)]_vars

\* witness of C18: the lineage of an artifact that lists itself as a source
\* has been returned, with the inner occurrence marked circular
C18_Witness ==
    /\ ret.op = "get_artifact_lineage"
    /\ ret.raised = NoneStr
    /\ "sources" \in DOMAIN ret.result
    /\ \E k \in 1..Len(ret.result.sources) :
          /\ "circular_reference" \in DOMAIN ret.result.sources[k]
          /\ ret.result.sources[k].artifact_id = ret.artifact_id

\* C20: store rejects a source path that is a symbolic link with the
\* security error whether or not the link's target exists, copying nothing
\* and writing no metadata record; a path that is no link and does not
\* exist fails with not-found.
C20_SymlinkRejected ==
    [][(/\ CallStep("create_artifact")
        /\ valid_shapes(ret'.args)
        /\ ret'.args.source_path.shape = "Path")
          => LET kind == ret'.args.source_path.kind
             IN /\ kind \in {"symlink", "dangling_symlink"}
                      => /\ ret'.raised = "Symlinks not allowed for security"
                         /\ metadata' = metadata
                         /\ files' = files
                /\ kind = "missing"
                      => /\ ret'.raised = "Source file not found"
                         /\ metadata' = metadata
                         /\ files' = files]_vars

\* witness of C20: a store of a dangling link has just been rejected with
\* the security error, next to an artifact stored before
C20_Witness ==
    /\ ret.op = "create_artifact"
    /\ ret.args.source_path.shape = "Path"
    /\ ret.args.source_path.kind = "dangling_symlink"
    /\ ret.raised = "Symlinks not allowed for security"
    /\ DOMAIN metadata = {1}
    /\ Cardinality(files) = 1
    /\ ret.artifact_id = 2

(* ---------------- the end-to-end scenario of the test ----------------- *)
(* startRun; createArtifact(RAW, file); createArtifact(DERIVED, [rawId]); *)
(* linkArtifacts([rawId], derivedId); endRun(completed), on a fresh        *)
(* manager, with reads and status updates made at any point in between.   *)

InitScenario ==
    /\ enable_audit = TRUE
    /\ auto_cleanup = FALSE
    /\ metadata = <<>>
    /\ files = {}
    /\ temp = FALSE
    /\ audit = AuditTrail(DefaultRotationSize, 0)
    /\ runs = <<>>
    /\ current_run = NoneId
    /\ clock = 0
    /\ next_uuid = 0
    /\ ncalls = 0
    /\ call_limit = 5 + MaxOtherCalls
    /\ ret = NoCall
    /\ lock = NoneId
    /\ pc = [t \in Threads |-> "idle"]
    /\ local = [t \in Threads |-> NoCall]

\* createArtifact(RAW, sourcePath=f) of the scenario
RawInputs ==
    {[artifact_type |-> ty, source_path |-> PathTo("file", c),
      source_artifacts |-> [shape |-> "None"], processing_module |-> "test_module",
      metadata |-> md] :
        ty \in {"video_raw", "audio_raw"}, c \in {"", "ab"},
        md \in {[shape |-> "None"], [shape |-> "dict", val |-> [run_id |-> 1]]}}

\* createArtifact(DERIVED, sourceArtifactIds=[rawId]) of the scenario
DerivedInputs ==
    {[artifact_type |-> ty, source_path |-> NoSource,
      source_artifacts |-> [shape |-> "list", val |-> <<1>>],
      processing_module |-> "test_keypoints", metadata |-> [shape |-> "None"]] :
        ty \in {"video_keypoints", "audio_transcript"}}

\* the five calls of the scenario, each enabled when the ones before it
\* have been made
ScenarioStep ==
    \/ runs = <<>> /\ start_processing_run
    \/ /\ current_run = 1 /\ next_uuid = 0
       /\ \E a \in RawInputs : create_artifact(a)
    \/ /\ current_run = 1 /\ next_uuid = 1
       /\ \E a \in DerivedInputs : create_artifact(a)
    \/ /\ current_run = 1 /\ next_uuid = 2 /\ metadata[2].source_artifacts = <<1>>
       /\ \E rel \in {"derived_from", "extracted_from"} : link_artifacts(<<1>>, 2, rel)
    \/ /\ current_run = 1 /\ next_uuid = 2 /\ metadata[2].source_artifacts = <<1, 1>>
       /\ end_processing_run("completed")

\* how many of the five calls have been made
ScenarioProgress ==
    IF runs = <<>> THEN 0
    ELSE IF current_run = NoneId THEN 5
    ELSE IF next_uuid < 2 THEN 1 + next_uuid
    ELSE IF metadata[2].source_artifacts = <<1>> THEN 3 ELSE 4

\* calls made in between, and a stored file removed from outside
ScenarioOther ==
    \/ /\ ncalls - ScenarioProgress < MaxOtherCalls
       /\ \/ \E i \in KnownIds : get_artifact(i)
          \/ \E i \in KnownIds : get_artifact_lineage(i)
          \/ \E i \in KnownIds, u \in StatusUpdateInputs :
                update_artifact_status(i, u[1], u[2])
          \/ get_statistics
    \/ DeleteFileOutOfBand

NextScenario == ScenarioStep \/ ScenarioOther

SpecScenario == InitScenario /\ [][NextScenario]_vars

\* the five calls of the scenario have been made
ScenarioDone == Len(runs) = 1 /\ current_run = NoneId

\* the log holds, at rising positions, run-start, the creations of ids 1
\* and 2, the link of id 2 and run-end
FiveInOrder(log) ==
    LET at_(k, operation) == log[k].operation = operation
        after(k) == (k + 1)..Len(log)
    IN \E a \in 1..Len(log) :
          /\ at_(a, "processing_run") /\ log[a].action = "start"
          /\ \E b \in after(a) :
                /\ at_(b, "artifact_creation") /\ log[b].artifact_id = 1
                /\ \E c \in after(b) :
                      /\ at_(c, "artifact_creation") /\ log[c].artifact_id = 2
                      /\ \E d \in after(c) :
                            /\ at_(d, "artifact_link") /\ log[d].artifact_id = 2
                            /\ \E e \in after(d) :
                                  at_(e, "processing_run") /\ log[e].action = "end"

\* C19: after the scenario there are exactly two metadata records, the
\* audit log holds run-start, the two creations, the link and run-end in
\* that order, the lineage of the derived artifact has the raw one as its
\* first source, expanded, and the statistics count two artifacts.
C19_EndToEnd ==
    ScenarioDone =>
        /\ DOMAIN metadata = {1, 2}
        /\ LET log == Entries(audit) IN FiveInOrder(log)
        /\ LET first == LineageNow(2).tree.sources[1]
           IN /\ first.artifact_id = 1
              /\ "type" \in DOMAIN first
              /\ "circular_reference" \notin DOMAIN first
              /\ "not_found" \notin DOMAIN first
        /\ statistics(metadata, files, audit, enable_audit).artifacts.total = 2

\* witness of C19: the scenario is over and the lineage of the derived
\* artifact has just been read
C19_Witness ==
    /\ ScenarioDone
    /\ ret.op = "get_artifact_lineage"
    /\ ret.artifact_id = 2
    /\ Len(ret.result.sources) = 2
    /\ ret.result.sources[1].artifact_id = 1

(* ------------- the same calls, made by concurrent threads ------------- *)
(* A call is split where another thread can run in between: at the       *)
(* acquisition of the manager lock, between a load and the save that     *)
(* follows it, and between two reads of self.current_run.                *)

\* calls made by the concurrent threads
ConcCreateInputs ==
    {[artifact_type |-> "video_keypoints", source_path |-> NoSource,
      source_artifacts |-> [shape |-> "None"], processing_module |-> NoneStr,
      metadata |-> [shape |-> "None"]],
     [artifact_type |-> "video_raw", source_path |-> PathTo("missing", ""),
      source_artifacts |-> [shape |-> "None"], processing_module |-> NoneStr,
      metadata |-> [shape |-> "None"]]}

ConcStatusInputs == {<<"in_progress", NoneStr>>, <<"failed", "boom">>}

\* a lock whose acquire() never waits
can_acquire_always(l) == TRUE

\* threading.Lock: acquire() returns only when no thread holds the lock
can_acquire(l) == l = NoneId

\* a "with" block that gives the lock up only when its caller comes back for it
lock_exit_still_held(t) == t

\* "with self._lock": leaving the block, by return or by raise, releases the
\* lock that thread t acquired on entering it
lock_exit(t) == NoneId

conc_frame == UNCHANGED <<config_vars, ret>>

\* thread t is at position p with locals l
at(t, p, l) == pc' = [pc EXCEPT ![t] = p] /\ local' = [local EXCEPT ![t] = l]

\* thread t goes on to position p of its call with locals l
goto(t, p, l) == at(t, p, l) /\ UNCHANGED clock

\* thread t leaves its call (returning or raising) with locals l; whatever
\* is called next reads a later time
leave(t, l) == at(t, "idle", [l EXCEPT !.done = TRUE]) /\ clock' = clock + 1

\* a thread enters a manager call
BeginCall(t, call, first) ==
    /\ pc[t] = "idle"
    /\ ncalls < MaxConcCalls
    /\ ncalls' = ncalls + 1
    /\ goto(t, first, call @@ [done |-> FALSE, raised |-> NoneStr])
    /\ UNCHANGED <<store_vars, audit, runs, current_run, next_uuid, lock>>
    /\ conc_frame

\* create_artifact: "with self._lock" and the isinstance checks
create_lock(t) ==
    /\ pc[t] = "create_lock"
    /\ can_acquire(lock)
    /\ IF valid_shapes(local[t].args)
       THEN lock' = t /\ goto(t, "create_store", local[t])
       ELSE lock' = lock_exit(t) /\ leave(t, [local[t] EXCEPT !.raised = "ValueError"])
    /\ UNCHANGED <<store_vars, audit, runs, current_run, next_uuid, ncalls>>
    /\ conc_frame

\* create_artifact: the artifact object, store_artifact / save_metadata
create_store(t) ==
    /\ pc[t] = "create_store"
    /\ next_uuid < MaxArtifacts
    /\ next_uuid' = next_uuid + 1
    /\ LET a == local[t].args
           aid == next_uuid + 1
           artifact == new_artifact(aid, a, clock)
           has_file == ~falsy(a.source_path)
           err == IF has_file THEN store_error(a.source_path) ELSE NoneStr
           stored == stored_artifact(artifact, a.source_path)
           returned == update_status(IF has_file THEN stored ELSE artifact,
                                     "completed", NoneStr, clock)
       IN IF err # NoneStr
          THEN /\ audit' = IF enable_audit
                           THEN storage_failure_entry(audit, clock, aid, a, err)
                           ELSE audit
               /\ lock' = lock_exit(t)
               /\ leave(t, [local[t] EXCEPT !.raised = err, !.artifact_id = aid])
               /\ UNCHANGED <<metadata, files>>
          ELSE /\ metadata' = save_metadata(metadata, IF has_file THEN stored ELSE returned)
               /\ files' = IF has_file THEN files \cup {stored.file_path} ELSE files
               /\ goto(t, "create_run_check",
                       [local[t] EXCEPT !.artifact_id = aid, !.persisted = TRUE])
               /\ UNCHANGED <<audit, lock>>
    /\ UNCHANGED <<temp, runs, current_run, ncalls>>
    /\ conc_frame

\* create_artifact: "if self.current_run:"
create_run_check(t) ==
    /\ pc[t] = "create_run_check"
    /\ goto(t, IF current_run # NoneId THEN "create_run_read" ELSE "create_audit", local[t])
    /\ UNCHANGED <<store_vars, audit, runs, current_run, next_uuid, ncalls, lock>>
    /\ conc_frame

\* create_artifact: the second read of self.current_run, ".output_artifacts"
create_run_read(t) ==
    /\ pc[t] = "create_run_read"
    /\ IF current_run = NoneId
       THEN \* 'NoneType' object has no attribute 'output_artifacts'
            lock' = lock_exit(t) /\ leave(t, [local[t] EXCEPT !.raised = "AttributeError"])
       ELSE lock' = lock /\ goto(t, "create_run_append", [local[t] EXCEPT !.run = current_run])
    /\ UNCHANGED <<store_vars, audit, runs, current_run, next_uuid, ncalls>>
    /\ conc_frame

\* create_artifact: ".append(artifact.artifact_id)" on the list just read
create_run_append(t) ==
    /\ pc[t] = "create_run_append"
    /\ runs' = append_output(runs, local[t].run, local[t].artifact_id)
    /\ goto(t, "create_audit", local[t])
    /\ UNCHANGED <<store_vars, audit, current_run, next_uuid, ncalls, lock>>
    /\ conc_frame

\* create_artifact: the creation audit entry, return, release of the lock
create_audit(t) ==
    /\ pc[t] = "create_audit"
    /\ audit' = IF enable_audit
                THEN creation_entry(audit, clock, local[t].artifact_id, local[t].args)
                ELSE audit
    /\ lock' = lock_exit(t)
    /\ leave(t, local[t])
    /\ UNCHANGED <<store_vars, runs, current_run, next_uuid, ncalls>>
    /\ conc_frame

\* update_artifact_status: "with self._lock", load_metadata
update_lock(t) ==
    /\ pc[t] = "update_lock"
    /\ can_acquire(lock)
    /\ LET artifact == load_metadata(metadata, local[t].artifact_id)
       IN IF artifact = NoArtifact
          THEN lock' = lock_exit(t) /\ leave(t, local[t])
          ELSE lock' = t /\ goto(t, "update_save",
                                 [local[t] EXCEPT !.artifact = artifact, !.found = TRUE])
    /\ UNCHANGED <<store_vars, audit, runs, current_run, next_uuid, ncalls>>
    /\ conc_frame

\* update_artifact_status: update_status, save_metadata
update_save(t) ==
    /\ pc[t] = "update_save"
    /\ metadata' = save_metadata(metadata,
                       update_status(local[t].artifact, local[t].status,
                                     local[t].error_message, clock))
    /\ goto(t, "update_audit", local[t])
    /\ UNCHANGED <<files, temp, audit, runs, current_run, next_uuid, ncalls, lock>>
    /\ conc_frame

\* update_artifact_status: the audit entry, release of the lock
update_audit(t) ==
    /\ pc[t] = "update_audit"
    /\ audit' = IF enable_audit
                THEN update_entry(audit, clock, local[t].artifact_id, local[t].status,
                                  local[t].error_message)
                ELSE audit
    /\ lock' = lock_exit(t)
    /\ leave(t, local[t])
    /\ UNCHANGED <<store_vars, runs, current_run, next_uuid, ncalls>>
    /\ conc_frame

\* get_artifact: "with self._lock"
get_lock(t) ==
    /\ pc[t] = "get_lock"
    /\ can_acquire(lock)
    /\ lock' = t
    /\ goto(t, "get_body", local[t])
    /\ UNCHANGED <<store_vars, audit, runs, current_run, next_uuid, ncalls>>
    /\ conc_frame

\* get_artifact: load_metadata, the audit entry, release of the lock
get_body(t) ==
    /\ pc[t] = "get_body"
    /\ LET artifact == load_metadata(metadata, local[t].artifact_id)
       IN /\ audit' = IF enable_audit
                      THEN access_entry(audit, clock, local[t].artifact_id,
                                        artifact # NoArtifact)
                      ELSE audit
          /\ leave(t, [local[t] EXCEPT !.artifact = artifact,
                                       !.found = artifact # NoArtifact])
    /\ lock' = lock_exit(t)
    /\ UNCHANGED <<store_vars, runs, current_run, next_uuid, ncalls>>
    /\ conc_frame

\* link_artifacts: get_artifact's "with self._lock"
link_get_lock(t) ==
    /\ pc[t] = "link_get_lock"
    /\ can_acquire(lock)
    /\ lock' = t
    /\ goto(t, "link_get_body", local[t])
    /\ UNCHANGED <<store_vars, audit, runs, current_run, next_uuid, ncalls>>
    /\ conc_frame

\* link_artifacts: the body of get_artifact, then "if not output_artifact"
link_get_body(t) ==
    /\ pc[t] = "link_get_body"
    /\ LET output_artifact == load_metadata(metadata, local[t].artifact_id)
       IN /\ audit' = IF enable_audit
                      THEN access_entry(audit, clock, local[t].artifact_id,
                                        output_artifact # NoArtifact)
                      ELSE audit
          /\ IF output_artifact = NoArtifact
             THEN leave(t, local[t])
             ELSE goto(t, "link_save",
                       [local[t] EXCEPT !.artifact = output_artifact, !.found = TRUE])
    /\ lock' = lock_exit(t)
    /\ UNCHANGED <<store_vars, runs, current_run, next_uuid, ncalls>>
    /\ conc_frame

\* link_artifacts: extend source_artifacts, set the metadata key, save_metadata
link_save(t) ==
    /\ pc[t] = "link_save"
    /\ metadata' = save_metadata(metadata,
                       linked_artifact(local[t].artifact, local[t].sources,
                                       local[t].relationship))
    /\ goto(t, "link_audit", local[t])
    /\ UNCHANGED <<files, temp, audit, runs, current_run, next_uuid, ncalls, lock>>
    /\ conc_frame

\* link_artifacts: the audit entry, return
link_audit(t) ==
    /\ pc[t] = "link_audit"
    /\ audit' = IF enable_audit
                THEN link_entry(audit, clock, local[t].artifact_id, local[t].sources,
                                local[t].relationship)
                ELSE audit
    /\ leave(t, local[t])
    /\ UNCHANGED <<store_vars, runs, current_run, next_uuid, ncalls, lock>>
    /\ conc_frame

\* start_processing_run: self.current_run = ProcessingRun(...)
start_new(t) ==
    /\ pc[t] = "start_new"
    /\ Len(runs) < MaxRuns
    /\ LET run == ProcessingRun(Len(runs) + 1, "cfg", clock)
       IN /\ runs' = Append(runs, run)
          /\ current_run' = run.run_id
    /\ goto(t, "start_audit", local[t])
    /\ UNCHANGED <<store_vars, audit, next_uuid, ncalls, lock>>
    /\ conc_frame

\* start_processing_run: the audit entry built from self.current_run, return
start_audit(t) ==
    /\ pc[t] = "start_audit"
    /\ IF current_run = NoneId
       THEN \* 'NoneType' object has no attribute 'run_id'
            /\ leave(t, [local[t] EXCEPT !.raised = "AttributeError"])
            /\ UNCHANGED audit
       ELSE /\ audit' = IF enable_audit
                        THEN run_start_entry(audit, clock, runs[current_run])
                        ELSE audit
            /\ leave(t, [local[t] EXCEPT !.run = current_run])
    /\ UNCHANGED <<store_vars, runs, current_run, next_uuid, ncalls, lock>>
    /\ conc_frame

\* end_processing_run: "if not self.current_run: return"
end_check(t) ==
    /\ pc[t] = "end_check"
    /\ IF current_run = NoneId THEN leave(t, local[t])
       ELSE goto(t, "end_complete", local[t])
    /\ UNCHANGED <<store_vars, audit, runs, current_run, next_uuid, ncalls, lock>>
    /\ conc_frame

\* end_processing_run: self.current_run.complete(status)
end_complete(t) ==
    /\ pc[t] = "end_complete"
    /\ IF current_run = NoneId
       THEN /\ leave(t, [local[t] EXCEPT !.raised = "AttributeError"])
            /\ UNCHANGED runs
       ELSE /\ runs' = [runs EXCEPT ![current_run] = complete(@, local[t].status, clock)]
            /\ goto(t, "end_audit", [local[t] EXCEPT !.run = current_run])
    /\ UNCHANGED <<store_vars, audit, current_run, next_uuid, ncalls, lock>>
    /\ conc_frame

\* end_processing_run: the audit entry built from self.current_run
end_audit(t) ==
    /\ pc[t] = "end_audit"
    /\ IF ~enable_audit
       THEN goto(t, "end_clear", local[t]) /\ UNCHANGED audit
       ELSE IF current_run = NoneId
       THEN leave(t, [local[t] EXCEPT !.raised = "AttributeError"]) /\ UNCHANGED audit
       ELSE IF runs[current_run].completed_at = NoneInt
       THEN \* completed_at - started_at on a run that was never completed
            leave(t, [local[t] EXCEPT !.raised = "TypeError"]) /\ UNCHANGED audit
       ELSE /\ audit' = run_end_entry(audit, clock, runs[current_run], local[t].status)
            /\ goto(t, "end_clear", local[t])
    /\ UNCHANGED <<store_vars, runs, current_run, next_uuid, ncalls, lock>>
    /\ conc_frame

\* end_processing_run: cleanup_temp, the log line, self.current_run = None
end_clear(t) ==
    /\ pc[t] = "end_clear"
    /\ temp' = IF auto_cleanup THEN cleanup_temp(temp) ELSE temp
    /\ IF current_run = NoneId
       THEN leave(t, [local[t] EXCEPT !.raised = "AttributeError"])
       ELSE leave(t, local[t])
    /\ current_run' = NoneId
    /\ UNCHANGED <<metadata, files, audit, runs, next_uuid, ncalls, lock>>
    /\ conc_frame

\* the locals a call starts with
CreateCall(a) ==
    [op |-> "create_artifact", args |-> a, artifact_id |-> NoneId, persisted |-> FALSE,
     run |-> NoneId]

UpdateCall(i, status, error_message) ==
    [op |-> "update_artifact_status", artifact_id |-> i, status |-> status,
     error_message |-> error_message, artifact |-> NoArtifact, found |-> FALSE]

GetCall(i) ==
    [op |-> "get_artifact", artifact_id |-> i, artifact |-> NoArtifact, found |-> FALSE]

LinkCall(sources, i, relationship) ==
    [op |-> "link_artifacts", artifact_id |-> i, sources |-> sources,
     relationship |-> relationship, artifact |-> NoArtifact, found |-> FALSE]

StartCall == [op |-> "start_processing_run", run |-> NoneId]

EndCall(status) == [op |-> "end_processing_run", status |-> status, run |-> NoneId]

\* the calls that run under the manager lock, step by step
LockedCalls(t) ==
    \/ \E a \in ConcCreateInputs : BeginCall(t, CreateCall(a), "create_lock")
    \/ \E i \in KnownIds, u \in ConcStatusInputs :
          BeginCall(t, UpdateCall(i, u[1], u[2]), "update_lock")
    \/ \E i \in KnownIds : BeginCall(t, GetCall(i), "get_lock")
    \/ create_lock(t) \/ create_store(t) \/ create_run_check(t) \/ create_audit(t)
    \/ update_lock(t) \/ update_save(t) \/ update_audit(t)
    \/ get_lock(t) \/ get_body(t)

\* the steps that need a current run to have been seen by create_artifact
RunAppendSteps(t) == create_run_read(t) \/ create_run_append(t)

\* link_artifacts and the run calls, step by step
UnlockedCalls(t) ==
    \/ \E i \in KnownIds : BeginCall(t, LinkCall(<<1>>, i, "derived_from"), "link_get_lock")
    \/ BeginCall(t, StartCall, "start_new")
    \/ \E s \in {"completed", "failed"} : BeginCall(t, EndCall(s), "end_check")
    \/ link_get_lock(t) \/ link_get_body(t) \/ link_save(t) \/ link_audit(t)
    \/ start_new(t) \/ start_audit(t)
    \/ end_check(t) \/ end_complete(t) \/ end_audit(t) \/ end_clear(t)

\* threads calling create_artifact, update_artifact_status and get_artifact
NextLocked == \E t \in Threads : LockedCalls(t)

SpecLocked == Init /\ [][NextLocked]_vars

\* threads calling any of the manager's operations
NextConc == \E t \in Threads : LockedCalls(t) \/ RunAppendSteps(t) \/ UnlockedCalls(t)

SpecConc == Init /\ [][NextConc]_vars

(* ----------------- properties of the concurrent calls ----------------- *)

\* positions of the audit entries of the given operation for artifact i
EntriesOf(operation, i) ==
    LET log == Entries(audit)
    IN {k \in 1..Len(log) : log[k].operation = operation /\ log[k].artifact_id = i}

\* the most recently written of a non-empty set of entry positions
Latest(S) == CHOOSE k \in S : \A j \in S : j <= k

\* the ids listed in a sequence
Range(s) == {s[k] : k \in 1..Len(s)}

\* no thread is inside a manager call
Quiescent == \A t \in Threads : pc[t] = "idle"

\* C1: createArtifact, updateArtifactStatus and linkArtifacts each load,
\* mutate and persist a record while holding the manager lock, so no update
\* is lost: once the calls have returned, the persisted record carries the
\* status of the last status update and the source ids of every link.
C1_NoLostUpdate ==
    Quiescent =>
        \A i \in DOMAIN metadata :
            /\ EntriesOf("artifact_update", i) # {}
                  => metadata[i].status =
                        Entries(audit)[Latest(EntriesOf("artifact_update", i))].details.new_status
            /\ \A k \in EntriesOf("artifact_link", i) :
                  Range(Entries(audit)[k].details.source_artifacts)
                      \subseteq Range(metadata[i].source_artifacts)

\* positions at which a thread is inside "with self._lock"
InsideLock ==
    {"create_store", "create_run_check", "create_run_read", "create_run_append",
     "create_audit", "update_save", "update_audit", "get_body", "link_get_body"}

\* threads whose last call was a finished status update of an existing id
DoneUpdaters ==
    {t \in Threads : /\ local[t].op = "update_artifact_status"
                     /\ local[t].done
                     /\ local[t].found}

\* C2: at most one thread is inside the critical section of createArtifact,
\* updateArtifactStatus or getArtifact; so whenever the lock is free the
\* persisted status of an id is the one of the update that took the lock
\* last, and every finished update has its own artifact_update entry.
C2_LockSerializes ==
    /\ Cardinality({t \in Threads : pc[t] \in InsideLock}) <= 1
    /\ \A t \in Threads : pc[t] \in InsideLock => lock = t
    /\ LET log == Entries(audit)
       IN /\ lock = NoneId =>
                \A i \in DOMAIN metadata :
                    EntriesOf("artifact_update", i) # {}
                       => metadata[i].status =
                             log[Latest(EntriesOf("artifact_update", i))].details.new_status
          /\ DoneUpdaters # {} =>
                \E own \in [DoneUpdaters -> 1..Len(log)] :
                   /\ \A t, u \in DoneUpdaters : own[t] = own[u] => t = u
                   /\ \A t \in DoneUpdaters :
                         /\ own[t] \in EntriesOf("artifact_update", local[t].artifact_id)
                         /\ log[own[t]].details.new_status = local[t].status
                         /\ log[own[t]].details.error_message = local[t].error_message

\* witness of C2: one thread waits for the lock that another thread holds
\* while updating the same artifact to a different status
C2_Witness ==
    \E t, u \in Threads :
        /\ pc[t] = "update_lock"
        /\ pc[u] = "update_audit"
        /\ local[t].artifact_id = local[u].artifact_id
        /\ local[t].status # local[u].status
        /\ EntriesOf("artifact_update", local[t].artifact_id) # {}

\* C3: with auditing enabled, under every interleaving a createArtifact
\* whose storage and metadata persistence succeeded returns the artifact
\* and has written its artifact_creation entry.
C3_CreationAlwaysAudited ==
    enable_audit =>
        \A t \in Threads :
            (local[t].op = "create_artifact" /\ local[t].done /\ local[t].persisted)
               => /\ local[t].raised = NoneStr
                  /\ EntriesOf("artifact_creation", local[t].artifact_id) # {}

(* ---------------- the audit trail on its own (audit.py) ---------------- *)
(* An AuditTrail object used directly by concurrent threads.  A           *)
(* log_operation call builds its entry (timestamp and id) first and       *)
(* writes it afterwards, the write being one step under the audit lock.   *)

\* rotation_size_mb arguments of AuditTrail(...), in lines
RotationSizeInputs == {1, 2}

\* the times at which the AuditTrail object is constructed
StartTimeInputs == {0}

\* an AuditTrail constructed on an empty directory; no manager call is made
InitAudit ==
    /\ enable_audit = TRUE
    /\ auto_cleanup = FALSE
    /\ metadata = <<>>
    /\ files = {}
    /\ temp = FALSE
    /\ \E now \in StartTimeInputs, r \in RotationSizeInputs :
          clock = now /\ audit = AuditTrail(r, now)
    /\ runs = <<>>
    /\ current_run = NoneId
    /\ next_uuid = 0
    /\ ncalls = 0
    /\ call_limit = MaxAuditCalls
    /\ ret = NoCall
    /\ lock = NoneId
    /\ pc = [t \in Threads |-> "idle"]
    /\ local = [t \in Threads |-> NoCall]

\* what the audit trail never touches
manager_vars == <<store_vars, runs, current_run, next_uuid, lock>>

\* (operation, action, artifact_id, user, module, success, error_message)
\* arguments of log_operation
LogInputs ==
    {<<"artifact_access", "get_metadata", 1, NoneStr, NoneStr, TRUE, NoneStr>>,
     <<"artifact_storage", "store", 1, NoneStr, "test_module", FALSE, "boom">>,
     <<"processing_run", "start", NoneId, USER, NoneStr, TRUE, NoneStr>>}

\* log_operation: the AuditEntry is constructed, with its id and timestamp
log_build(t, a) ==
    /\ pc[t] = "idle"
    /\ ncalls < call_limit
    /\ ncalls' = ncalls + 1
    /\ goto(t, "log_write",
            [op |-> "log_operation", done |-> FALSE, raised |-> NoneStr,
             entry |-> AuditEntry(ncalls + 1, clock, a[1], a[2], a[3], a[4], a[5],
                                  EmptyBag, a[6], a[7])])
    /\ UNCHANGED <<audit, manager_vars>>
    /\ conc_frame

\* log_operation: _write_entry, under the audit lock, and the return
log_write(t) ==
    /\ pc[t] = "log_write"
    /\ audit' = write_entry(audit, local[t].entry, clock)
    /\ ret' = [op |-> "log_operation", result |-> local[t].entry, raised |-> NoneStr]
    /\ leave(t, local[t])
    /\ UNCHANGED <<ncalls, manager_vars, config_vars>>

\* the filters query_audit_trail is called with
QueryInputs ==
    {NoFilter,
     [NoFilter EXCEPT !.artifact_id = 1],
     [NoFilter EXCEPT !.action = "store", !.module = "test_module"],
     [NoFilter EXCEPT !.user = USER],
     [NoFilter EXCEPT !.operation = "artifact_access", !.artifact_id = 1,
                      !.success = [given |-> TRUE, val |-> TRUE]],
     [NoFilter EXCEPT !.start_time = 1, !.end_time = 2],
     [NoFilter EXCEPT !.limit = 1]}

\* query_audit_trail, called while no write is in progress
query(f) ==
    /\ \A t \in Threads : pc[t] = "idle"
    /\ ncalls < call_limit
    /\ ncalls' = ncalls + 1
    /\ LET r == query_audit_trail(audit, f)
       IN ret' = [op |-> "query_audit_trail", filters |-> f, result |-> r.result,
                  raised |-> r.raised]
    /\ UNCHANGED <<audit, manager_vars, config_vars, thread_vars, clock>>

NextAudit ==
    \/ \E t \in Threads, a \in LogInputs : log_build(t, a)
    \/ \E t \in Threads : log_write(t)
    \/ \E f \in QueryInputs : query(f)

SpecAudit == InitAudit /\ [][NextAudit]_vars

\* the lines a damaged log file can hold
CorruptLines == {NotJson, NotARecord}

\* the number of damaged lines in the log files
corrupt_count(log) ==
    Cardinality({k \in 1..Len(Entries(log)) : ~is_record(Entries(log)[k])})

\* a log file is damaged from outside: a line that is no audit record gets
\* appended to it (a torn write, an editor, another program)
CorruptLine(name, line) ==
    /\ name \in DOMAIN audit.files
    /\ corrupt_count(audit) < MaxCorrupt
    /\ audit' = [audit EXCEPT !.files = append_line(@, name, line)]
    /\ UNCHANGED <<manager_vars, config_vars, thread_vars, clock, ncalls, ret>>

NextAuditFaulty ==
    \/ NextAudit
    \/ \E name \in DOMAIN audit.files, line \in CorruptLines : CorruptLine(name, line)

SpecAuditFaulty == InitAudit /\ [][NextAuditFaulty]_vars

(* ------------------- properties of the audit trail -------------------- *)

\* a step in which thread t completes the write of its entry
WriteStep(t) == pc[t] = "log_write" /\ pc'[t] = "idle"

\* C14: an append rotates exactly when the active file exists and has
\* reached the threshold; the rotation happens once, before the entry is
\* written, renames the active file to the smallest unused suffix of its
\* month and leaves every other file alone, and the entry becomes the only
\* line of a fresh active file; otherwise the entry is appended in place.
C14_RotationOnThreshold ==
    [][\A t \in Threads : WriteStep(t) =>
          LET cur == audit.current_log
              old == audit.files
              new == audit'.files
              full == cur \in DOMAIN old /\ Len(old[cur]) >= audit.rotation_size_mb
          IN IF full
             THEN \E n \in 1..(Cardinality(DOMAIN old) + 1) :
                     LET r == LogName(cur.yyyymm, n)
                     IN /\ r \notin DOMAIN old
                        /\ \A k \in 1..(n - 1) : LogName(cur.yyyymm, k) \in DOMAIN old
                        /\ audit'.current_log = LogName(yyyymm(clock), 0)
                        /\ DOMAIN new = ((DOMAIN old \ {cur}) \cup {r, audit'.current_log})
                        /\ new[r] = old[cur]
                        /\ new[audit'.current_log] = <<local[t].entry>>
                        /\ \A f \in DOMAIN old \ {cur} : new[f] = old[f]
             ELSE /\ audit'.current_log = cur
                  /\ DOMAIN new = DOMAIN old \cup {cur}
                  /\ new[cur] = (IF cur \in DOMAIN old THEN old[cur] ELSE <<>>)
                                   \o <<local[t].entry>>
                  /\ \A f \in DOMAIN old \ {cur} : new[f] = old[f]]_vars

\* witness of C14: the second rotation of a month has happened, into a
\* later month's active file
C14_Witness ==
    /\ LogName(0, 1) \in DOMAIN audit.files
    /\ LogName(0, 2) \in DOMAIN audit.files
    /\ audit.current_log = LogName(1, 0)
    /\ audit.current_log \in DOMAIN audit.files

\* s is an initial part of t
IsPrefix(s, t) == Len(s) <= Len(t) /\ SubSeq(t, 1, Len(s)) = s

\* C15: the audit trail is append-only across rotations and concurrent
\* appends: no step drops, changes or reorders a line on disk, a write adds
\* exactly its own entry, and every entry of a finished log_operation is on
\* disk exactly once.
C15_AppendOnly ==
    /\ [][/\ IsPrefix(Entries(audit), Entries(audit'))
          /\ \A t \in Threads : WriteStep(t)
                => Entries(audit') = Append(Entries(audit), local[t].entry)]_vars
    /\ [](/\ \A j, k \in 1..Len(Entries(audit)) :
                Entries(audit)[j].entry_id = Entries(audit)[k].entry_id => j = k
          /\ \A t \in Threads :
                (local[t].op = "log_operation" /\ local[t].done)
                   => local[t].entry \in Elements(Entries(audit)))

\* witness of C15: a file has been rotated out, the active file is full
\* again, and one thread is about to write while the other has finished
C15_Witness ==
    /\ Cardinality(DOMAIN audit.files) = 2
    /\ should_rotate(audit)
    /\ \E t, u \in Threads :
          /\ pc[t] = "log_write"
          /\ local[u].op = "log_operation" /\ local[u].done

\* entry e satisfies every filter that f supplies
Satisfies(e, f) ==
    /\ f.start_time = NoneInt \/ e.timestamp >= f.start_time
    /\ f.end_time = NoneInt \/ e.timestamp <= f.end_time
    /\ f.operation = NoneStr \/ e.operation = f.operation
    /\ f.action = NoneStr \/ e.action = f.action
    /\ f.artifact_id = NoneId \/ e.artifact_id = f.artifact_id
    /\ f.user = NoneStr \/ e.user = f.user
    /\ f.module = NoneStr \/ e.module = f.module
    /\ ~f.success.given \/ e.success = f.success.val

\* a step that is a query without limit
UnlimitedQueryStep ==
    ncalls' = ncalls + 1 /\ ret'.op = "query_audit_trail" /\ ret'.filters.limit = NoneInt

\* C16: a query without limit returns, each once, exactly the logged
\* entries that satisfy every supplied filter, from all log files, rotated
\* ones included.
C16_QueryReturnsMatches ==
    [][UnlimitedQueryStep =>
          /\ ret'.raised = NoneStr
          /\ Elements(ret'.result)
                = {e \in Elements(Entries(audit)) : Satisfies(e, ret'.filters)}
          /\ \A j, k \in 1..Len(ret'.result) : ret'.result[j] = ret'.result[k] => j = k]_vars

\* witness of C16: a query by artifact id has answered with the one entry
\* of that id, which lies in a rotated file, leaving out the other entry
C16_Witness ==
    /\ ret.op = "query_audit_trail"
    /\ ret.filters = [NoFilter EXCEPT !.artifact_id = 1]
    /\ Len(ret.result) = 1
    /\ Len(Entries(audit)) = 2
    /\ LogName(0, 1) \in DOMAIN audit.files
    /\ ret.result[1] \in Elements(audit.files[LogName(0, 1)])

\* C17: a query of log files that hold lines which are no well-formed audit
\* record returns normally, and returns what it would return for the
\* well-formed lines alone.
C17_CorruptLinesSkipped ==
    [][UnlimitedQueryStep =>
          /\ ret'.raised = NoneStr
          /\ Elements(ret'.result)
                = {e \in Elements(Entries(audit)) :
                      is_record(e) /\ Satisfies(e, ret'.filters)}]_vars


(* -------- create_artifact over argument shapes and file names --------- *)

\* calls with one argument of a type the signature does not name: a str for
\* source_path, a list for metadata, a str or a tuple for source_artifacts;
\* empty tells whether it is the empty value of its type
ShapeInputs ==
    LET plain == [artifact_type |-> "video_raw", source_path |-> NoSource,
                  source_artifacts |-> [shape |-> "None"],
                  processing_module |-> "test_module", metadata |-> [shape |-> "None"]]
        wrong(shape, empty) == [shape |-> shape, empty |-> empty]
    IN {[plain EXCEPT !.source_path = wrong("str", e)] : e \in BOOLEAN}
       \cup {[plain EXCEPT !.metadata = wrong("list", e)] : e \in BOOLEAN}
       \cup {[plain EXCEPT !.source_artifacts = wrong(sh, e)] :
               sh \in {"str", "tuple"}, e \in BOOLEAN}

\* file names of one and two characters, and names one character longer
\* than the cap. The characters: ASCII letters and a digit, the three
\* punctuation marks the pattern names, a blank, a backslash, a dollar sign,
\* and three word characters outside ASCII
NameInputs ==
    LET chars == {"a", "Z", "7", "_", ".", "-", " ", "\\", "$",
                  "U+00E9", "U+4E2D", "U+0663"}
    IN {<<c>> : c \in chars} \cup {<<c, d>> : c, d \in chars}
          \cup {[k \in 1..(FilenameCap + 1) |-> c] : c \in {"a", " "}}

\* calls that store an existing regular file of the given name
FileInputs ==
    {[artifact_type |-> "video_raw",
      source_path |-> [PathTo("file", "ab") EXCEPT !.name = n],
      source_artifacts |-> [shape |-> "None"], processing_module |-> "test_module",
      metadata |-> [shape |-> "None"]] : n \in NameInputs}

NextInputs ==
    \/ start_processing_run
    \/ \E a \in ShapeInputs \cup FileInputs : create_artifact(a)
    \/ \E i \in KnownIds : get_artifact_file(i)

SpecInputs == Init /\ [][NextInputs]_vars

\* an argument is of a type the signature does not name
WronglyShaped(a) ==
    \/ a.source_path.shape \notin {"None", "Path"}
    \/ a.metadata.shape \notin {"None", "dict"}
    \/ a.source_artifacts.shape \notin {"None", "list"}

\* C21: createArtifact called with a wrongly shaped argument (source path
\* not a path object, metadata not a map, source ids not a list) fails with
\* a validation error before any I/O: no file, no metadata record, no audit
\* entry, the current run's output list unchanged, the manager lock free.
C21_WrongShapeRejected ==
    [][(CallStep("create_artifact") /\ WronglyShaped(ret'.args))
          => /\ ret'.raised = "ValueError"
             /\ files' = files
             /\ metadata' = metadata
             /\ audit' = audit
             /\ runs' = runs
             /\ lock' = NoneId]_vars

\* the name the stored file is said to get: every character outside
\* [A-Za-z0-9_.-] replaced, at most 100 characters
AsciiSanitized(name) ==
    LET sub == [k \in 1..Len(name) |->
                   IF name[k] \in {"a", "Z", "7", "_", ".", "-"} THEN name[k] ELSE "_"]
    IN SubSeq(sub, 1, IF Len(sub) > 100 THEN 100 ELSE Len(sub))

\* C22: for every source file name the stored file is
\* artifacts/<type>/<artifact_id>_<s>, s being the name with every character
\* outside [A-Za-z0-9_.-] (non-ASCII letters and path separators included)
\* replaced by '_' and capped at 100 characters; so the stored path is a
\* direct child of the artifact's type directory.
C22_StoredNameSanitized ==
    [][(/\ CallStep("create_artifact")
        /\ ret'.raised = NoneStr
        /\ ret'.args.source_path.shape = "Path")
          => LET stored == ret'.result.file_path
             IN /\ stored = [dir |-> ret'.args.artifact_type,
                             aid |-> ret'.artifact_id,
                             name |-> AsciiSanitized(ret'.args.source_path.name)]
                /\ stored \in files'
                /\ \A k \in 1..Len(stored.name) : stored.name[k] \notin {"/", "\\"}]_vars


(* ------------------- processing runs, at more length ------------------ *)
(* start_processing_run, end_processing_run and create_artifact called in *)
(* any order by one caller, with the temp directory in use and            *)
(* auto_cleanup on or off.                                                *)

\* number of manager calls in one behaviour of the run sequences
MaxRunCalls == 5

\* ArtifactManager.__init__ on an empty base path, auto_cleanup as passed
InitRuns ==
    /\ enable_audit = TRUE
    /\ auto_cleanup \in BOOLEAN
    /\ metadata = <<>>
    /\ files = {}
    /\ temp = FALSE
    /\ audit = AuditTrail(DefaultRotationSize, 0)
    /\ runs = <<>>
    /\ current_run = NoneId
    /\ clock = 0
    /\ next_uuid = 0
    /\ ncalls = 0
    /\ call_limit = MaxRunCalls
    /\ ret = NoCall
    /\ lock = NoneId
    /\ pc = [t \in Threads |-> "idle"]
    /\ local = [t \in Threads |-> NoCall]

\* a processing module leaves a file under storage/temp
WriteTemp ==
    /\ temp = FALSE
    /\ temp' = TRUE
    /\ UNCHANGED <<config_vars, metadata, files, audit, runs, current_run, clock,
                   next_uuid, ncalls, ret, thread_vars>>

\* the creations made around the runs: one that succeeds, one whose store
\* step fails
RunCreateInputs ==
    {[artifact_type |-> "video_keypoints", source_path |-> sp,
      source_artifacts |-> [shape |-> "None"], processing_module |-> NoneStr,
      metadata |-> [shape |-> "None"]] : sp \in {NoSource, PathTo("missing", "")}}

NextRuns ==
    \/ WriteTemp
    \/ start_processing_run
    \/ \E status \in {"completed", "failed"} : end_processing_run(status)
    \/ \E a \in RunCreateInputs : create_artifact(a)

SpecRuns == InitRuns /\ [][NextRuns]_vars

\* the position of the last run-start entry of the log
LastStart(log) ==
    CHOOSE k \in 1..Len(log) :
        /\ log[k].operation = "processing_run" /\ log[k].action = "start"
        /\ \A j \in (k + 1)..Len(log) :
              ~(log[j].operation = "processing_run" /\ log[j].action = "start")

C24_EndWithoutRunIsNoOp ==
    [][/\ (CallStep("end_processing_run") /\ current_run = NoneId)
          => /\ ret'.raised = NoneStr
             /\ audit' = audit
             /\ temp' = temp
             /\ metadata' = metadata
             /\ files' = files
             /\ runs' = runs
             /\ current_run' = NoneId
       /\ (CallStep("end_processing_run") /\ ret.op = "end_processing_run")
          => audit' = audit]_vars

\* witness of C24: with auto-cleanup on and the temp directory in use, an
\* endRun has just been made after the only run had ended; the log holds
\* one run-end entry
C24_Witness ==
    /\ ret.op = "end_processing_run"
    /\ ret.run_id = NoneId
    /\ auto_cleanup
    /\ temp
    /\ Len(runs) = 1
    /\ runs[1].completed_at # NoneInt
    /\ LET log == Entries(audit)
       IN Cardinality({k \in 1..Len(log) : log[k].action = "end"}) = 1


(* ------------------- lineage over a populated store ------------------- *)
(* A manager opened on a base path whose store holds artifacts created    *)
(* earlier, by a manager that kept no audit trail; the caller asks for    *)
(* the lineage of one id.                                                 *)

\* number of artifacts in the store
MaxLineageIds == 3

\* The store holds, for each id i, the record that
\* create_artifact(VIDEO_KEYPOINTS, source_artifacts=src) persisted at time
\* i - 1. A source list has up to two ids, among those of the store and 0,
\* an id that has no record; the first two artifacts list up to two
\* sources, the others up to one.
InitLineage ==
    /\ enable_audit = TRUE
    /\ auto_cleanup = FALSE
    /\ LET ids == 0..MaxLineageIds
           lists == {<<>>} \cup {<<i>> : i \in ids} \cup {<<i, j>> : i, j \in ids}
           record(i, src) ==
               update_status(ArtifactMetadata(i, "video_keypoints", src, NoneStr,
                                              EmptyBag, i - 1),
                             "completed", NoneStr, i - 1)
       IN \E src \in [1..MaxLineageIds -> lists] :
             /\ \A i \in 3..MaxLineageIds : Len(src[i]) <= 1
             /\ metadata = [i \in 1..MaxLineageIds |-> record(i, src[i])]
    /\ files = {}
    /\ temp = FALSE
    /\ audit = AuditTrail(DefaultRotationSize, MaxLineageIds)
    /\ runs = <<>>
    /\ current_run = NoneId
    /\ clock = MaxLineageIds
    /\ next_uuid = MaxLineageIds
    /\ ncalls = 0
    /\ call_limit = 1
    /\ ret = NoCall
    /\ lock = NoneId
    /\ pc = [t \in Threads |-> "idle"]
    /\ local = [t \in Threads |-> NoCall]

NextLineage == \E i \in KnownIds : get_artifact_lineage(i)

SpecLineage == InitLineage /\ [][NextLineage]_vars

\* C25: in the tree returned by getArtifactLineage every artifact id is
\* expanded (rendered with type, status and sources) at most once over the
\* whole traversal; every further occurrence of that id, on the same branch
\* or on another one, is a leaf with circular_reference true and no sources.
C25_ExpandedAtMostOnce ==
    [][CallStep("get_artifact_lineage")
          => /\ ret'.raised = NoneStr
             /\ LET nodes == Preorder(ret'.result)
                IN \A k \in 1..Len(nodes) :
                      IF \E j \in 1..(k - 1) : nodes[j].artifact_id = nodes[k].artifact_id
                      THEN nodes[k] = [artifact_id |-> nodes[k].artifact_id,
                                       circular_reference |-> TRUE]
                      ELSE "circular_reference" \notin DOMAIN nodes[k]]_vars

\* witness of C25: the lineage of a diamond has been returned: 1 lists 2
\* and 3, 2 lists 3; 3 is expanded below 2 and a circular leaf below 1
C25_Witness ==
    /\ ret.op = "get_artifact_lineage"
    /\ ret.artifact_id = 1
    /\ metadata[1].source_artifacts = <<2, 3>>
    /\ metadata[2].source_artifacts = <<3>>
    /\ "type" \in DOMAIN ret.result.sources[1].sources[1]
    /\ ret.result.sources[1].sources[1].artifact_id = 3
    /\ ret.result.sources[2] = [artifact_id |-> 3, circular_reference |-> TRUE]


(* ------------ more properties of the whole calls (Spec) --------------- *)

\* the lineage of a stored id renders its sources in source-list order: one
\* met before in the traversal as a circular leaf, one without a record as
\* a not_found leaf, any other in full
RenderedInOrder(i) ==
    LET r == LineageNow(i)
        src == metadata[i].source_artifacts
    IN /\ r.raised = NoneStr
       /\ r.tree.artifact_id = i
       /\ "type" \in DOMAIN r.tree
       /\ Len(r.tree.sources) = Len(src)
       /\ \A k \in 1..Len(src) :
             LET node == r.tree.sources[k]
                 before == {i} \cup {n.artifact_id :
                              n \in Elements(PreorderAll(SubSeq(r.tree.sources, 1, k - 1)))}
             IN /\ node.artifact_id = src[k]
                /\ src[k] \notin before =>
                      IF src[k] \in DOMAIN metadata
                      THEN /\ "sources" \in DOMAIN node
                           /\ node.type = metadata[src[k]].artifact_type
                           /\ node.status = metadata[src[k]].status
                      ELSE node = [artifact_id |-> src[k], not_found |-> TRUE]

\* C26: dangling source references never block access: createArtifact and
\* linkArtifacts accept source ids that have no metadata record, and
\* getArtifactLineage of an artifact with such a source returns normally,
\* with that source a leaf marked not_found and the artifact itself and its
\* other sources rendered in full, in source-list order.
C26_DanglingSourcesAccepted ==
    /\ [](\A i \in DOMAIN metadata : RenderedInOrder(i))
    /\ [][/\ (CallStep("create_artifact") /\ valid_shapes(ret'.args)
                 /\ ~StoreStepFails(ret'))
             => /\ ret'.raised = NoneStr
                /\ metadata'[ret'.artifact_id].source_artifacts
                      = list_or_empty(ret'.args.source_artifacts)
          /\ (CallStep("link_artifacts") /\ ret'.artifact_id \in DOMAIN metadata)
             => /\ ret'.raised = NoneStr
                /\ ret'.found
                /\ Elements(ret'.sources)
                      \subseteq Elements(metadata'[ret'.artifact_id].source_artifacts)
          /\ CallStep("get_artifact_lineage")
             => /\ ret'.raised = NoneStr
                /\ ret'.result = LineageNow(ret'.artifact_id).tree]_vars

\* witness of C26: the lineage of an artifact whose first source has no
\* record, and which has a second source, has just been returned
C26_Witness ==
    /\ ret.op = "get_artifact_lineage"
    /\ ret.raised = NoneStr
    /\ ret.artifact_id \in DOMAIN metadata
    /\ Len(ret.result.sources) = 2
    /\ ret.result.sources[1] = [artifact_id |-> 0, not_found |-> TRUE]
    /\ ret.result.status = "completed"

\* C27: linkArtifacts(S, out, rel) on an existing output artifact makes the
\* persisted source ids the previous list followed by S (order kept,
\* duplicates kept) and sets metadata[rel + "_artifacts"] to S, replacing
\* what an earlier link stored there; if out does not resolve it raises
\* nothing and changes no metadata record.
C27_LinkAppendsSources ==
    [][CallStep("link_artifacts")
          => LET out == ret'.artifact_id
                 key == ret'.relationship \o "_artifacts"
             IN /\ ret'.raised = NoneStr
                /\ IF out \in DOMAIN metadata
                   THEN /\ DOMAIN metadata' = DOMAIN metadata
                        /\ metadata'[out].source_artifacts
                              = metadata[out].source_artifacts \o ret'.sources
                        /\ metadata'[out].metadata[key] = ret'.sources
                        /\ \A k \in DOMAIN metadata[out].metadata \ {key} :
                              metadata'[out].metadata[k] = metadata[out].metadata[k]
                        /\ \A j \in DOMAIN metadata \ {out} : metadata'[j] = metadata[j]
                   ELSE metadata' = metadata]_vars

\* witness of C27: a second link of the same output artifact has just been
\* made; its two ids follow the id of the first link, one of them for the
\* second time, and the relationship key holds the second list
C27_Witness ==
    /\ ret.op = "link_artifacts"
    /\ ret.found
    /\ ret.sources = <<1, 0>>
    /\ metadata[ret.artifact_id].source_artifacts = <<0, 1, 0>>
    /\ metadata[ret.artifact_id].metadata["derived_from_artifacts"] = <<1, 0>>

\* C28: updateArtifactStatus on an id that has no metadata record raises
\* nothing and changes nothing, no record being created or modified, and
\* the manager lock is free afterwards; on an existing id it accepts any
\* target status from any current status.
C28_UpdateAcceptsAnyStatus ==
    [][CallStep("update_artifact_status")
          => LET i == ret'.artifact_id
             IN /\ ret'.raised = NoneStr
                /\ lock' = NoneId
                /\ files' = files
                /\ IF i \in DOMAIN metadata
                   THEN /\ ret'.found
                        /\ DOMAIN metadata' = DOMAIN metadata
                        /\ metadata'[i].status = ret'.status
                        /\ \A j \in DOMAIN metadata \ {i} : metadata'[j] = metadata[j]
                   ELSE /\ ~ret'.found
                        /\ metadata' = metadata
                        /\ audit' = audit]_vars

\* witness of C28: an archived artifact has just been set back to pending
C28_Witness ==
    /\ ret.op = "update_artifact_status"
    /\ ret.found
    /\ ret.status = "pending"
    /\ metadata[ret.artifact_id].status = "pending"
    /\ LET log == Entries(audit)
       IN /\ Len(log) = 3
          /\ log[2].operation = "artifact_update"
          /\ log[2].artifact_id = ret.artifact_id
          /\ log[2].details.new_status = "archived"

\* C29: cleanupOldArtifacts(days) deletes the stored file, and only the
\* file, of every artifact whose created_at is older than the cutoff and
\* whose file exists: the metadata records stay as they are, one
\* artifact_cleanup audit entry is written per deleted file, the returned
\* count is the number of files deleted, newer artifacts are untouched, and
\* a second call made before any record crosses the cutoff returns 0.
C29_CleanupDeletesOldFiles ==
    [][CallStep("cleanup_old_artifacts")
          => LET cutoff == clock - ret'.days_old
                 old == {i \in DOMAIN metadata :
                           /\ metadata[i].created_at < cutoff
                           /\ metadata[i].file_path # NonePath
                           /\ metadata[i].file_path \in files}
                 log == Entries(audit)
                 after == Entries(audit')
                 written == SubSeq(after, Len(log) + 1, Len(after))
             IN /\ ret'.raised = NoneStr
                /\ files' = files \ {metadata[i].file_path : i \in old}
                /\ metadata' = metadata
                /\ ret'.result = Cardinality(old)
                /\ ret'.result = Cardinality(files \ files')
                /\ SubSeq(after, 1, Len(log)) = log
                /\ Len(written) = Cardinality(old)
                /\ {e.artifact_id : e \in Elements(written)} = old
                /\ \A e \in Elements(written) :
                      e.operation = "artifact_cleanup" /\ e.action = "remove_old"
                /\ (/\ ret.op = "cleanup_old_artifacts"
                    /\ ret.days_old = ret'.days_old
                    /\ \A i \in DOMAIN metadata :
                          ~(cutoff - 1 <= metadata[i].created_at
                               /\ metadata[i].created_at < cutoff))
                      => ret'.result = 0 /\ files' = files]_vars

\* witness of C29: of two stored files the cleanup has just removed the
\* one older than the cutoff and left the newer one
C29_Witness ==
    /\ ret.op = "cleanup_old_artifacts"
    /\ ret.result = 1
    /\ DOMAIN metadata = {1, 2}
    /\ metadata[1].file_path \notin files
    /\ metadata[2].file_path \in files
    /\ Entries(audit)[3].operation = "artifact_cleanup"
    /\ Entries(audit)[3].artifact_id = 1


(* ------------------ queries of a much rotated log --------------------- *)

\* the most rotations the directory has gone through
MaxRotations == 10

\* the AuditTrail object and its directory after k log_operation calls with
\* a rotation size of one line, so that every call but the first rotates:
\* the first `early` calls are made in month 0, the others in month 1
RECURSIVE rotated_log(_, _)
rotated_log(k, early) ==
    IF k = 0 THEN AuditTrail(1, 0)
    ELSE log_operation(rotated_log(k - 1, early), IF k <= early THEN 0 ELSE 2,
                       "artifact_access", "get_metadata", 1, NoneStr, NoneStr,
                       EmptyBag, TRUE, NoneStr)

\* an audit directory that up to MaxRotations + 1 entries have been written to
InitRotated ==
    /\ enable_audit = TRUE
    /\ auto_cleanup = FALSE
    /\ metadata = <<>>
    /\ files = {}
    /\ temp = FALSE
    /\ \E k \in 1..(MaxRotations + 1) : \E early \in 0..k :
          audit = rotated_log(k, early)
    /\ clock = 3
    /\ runs = <<>>
    /\ current_run = NoneId
    /\ next_uuid = 0
    /\ ncalls = 0
    /\ call_limit = 1
    /\ ret = NoCall
    /\ lock = NoneId
    /\ pc = [t \in Threads |-> "idle"]
    /\ local = [t \in Threads |-> NoCall]

NextRotated ==
    \E f \in QueryInputs \cup {[NoFilter EXCEPT !.limit = 2]} : query(f)

SpecRotated == InitRotated /\ [][NextRotated]_vars

\* the lines of the given files, the newest file first
RECURSIVE LinesNewestFirst(_, _)
LinesNewestFirst(files_, names) ==
    IF names = {} THEN <<>>
    ELSE LET first == CHOOSE a \in names : \A b \in names \ {a} : Older(b, a)
         IN files_[first] \o LinesNewestFirst(files_, names \ {first})

\* C30: query visits the log files from newest to oldest: a later month
\* before an earlier one, and within a month the active file before every
\* rotated file and a higher suffix before a lower one, for every number of
\* rotations; with a limit the result is the first `limit` matches in that
\* order.
C30_QueryNewestFileFirst ==
    [][(ncalls' = ncalls + 1 /\ ret'.op = "query_audit_trail")
          => LET f == ret'.filters
                 ok(e) == Satisfies(e, f)
                 hits == SelectSeq(LinesNewestFirst(audit.files, DOMAIN audit.files), ok)
             IN /\ ret'.raised = NoneStr
                /\ ret'.result = IF f.limit # NoneInt /\ Len(hits) > f.limit
                                 THEN SubSeq(hits, 1, f.limit)
                                 ELSE hits]_vars


(* --------------- a long-lived AuditTrail that never rotates ------------ *)

\* an AuditTrail constructed with the default rotation size, which a
\* bounded run never reaches, and used by concurrent threads for as long as
\* the calls last
InitLongLived ==
    /\ enable_audit = TRUE
    /\ auto_cleanup = FALSE
    /\ metadata = <<>>
    /\ files = {}
    /\ temp = FALSE
    /\ \E now \in {0, 1} : clock = now /\ audit = AuditTrail(DefaultRotationSize, now)
    /\ runs = <<>>
    /\ current_run = NoneId
    /\ next_uuid = 0
    /\ ncalls = 0
    /\ call_limit = MaxAuditCalls
    /\ ret = NoCall
    /\ lock = NoneId
    /\ pc = [t \in Threads |-> "idle"]
    /\ local = [t \in Threads |-> NoCall]

SpecLongLived == InitLongLived /\ [][NextAudit]_vars

\* C31: audit entries are grouped into monthly files: every entry appended
\* while the calendar month is M is written to the active or a rotated file
\* of month M, also by a long-lived AuditTrail that keeps appending after
\* the month has changed without a rotation.  Stated for the entries
\* that are built and written within the same month.
C31_EntryInFileOfItsMonth ==
    [][\A t \in Threads :
          (WriteStep(t) /\ yyyymm(local[t].entry.timestamp) = yyyymm(clock)) =>
          \E name \in DOMAIN audit'.files :
             /\ name.yyyymm = yyyymm(clock)
             /\ audit'.files[name] =
                   (IF name \in DOMAIN audit.files THEN audit.files[name] ELSE <<>>)
                      \o <<local[t].entry>>]_vars

\* C32: within one log file the lines are oldest first: read top to bottom
\* their timestamps never decrease, also when several threads call
\* log_operation concurrently.
C32_FileLinesOldestFirst ==
    \A name \in DOMAIN audit.files :
       \A j, k \in 1..Len(audit.files[name]) :
          j < k => audit.files[name][j].timestamp <= audit.files[name][k].timestamp


(* ----------------------- listings by run id --------------------------- *)

\* number of manager calls in one behaviour of the listings
MaxListCalls == 4

\* ArtifactManager.__init__ on an empty base path
InitListing ==
    /\ enable_audit = TRUE
    /\ auto_cleanup = FALSE
    /\ metadata = <<>>
    /\ files = {}
    /\ temp = FALSE
    /\ audit = AuditTrail(DefaultRotationSize, 0)
    /\ runs = <<>>
    /\ current_run = NoneId
    /\ clock = 0
    /\ next_uuid = 0
    /\ ncalls = 0
    /\ call_limit = MaxListCalls
    /\ ret = NoCall
    /\ lock = NoneId
    /\ pc = [t \in Threads |-> "idle"]
    /\ local = [t \in Threads |-> NoCall]

\* creations of two types, with and without a run_id key supplied by the
\* caller in the metadata argument
ListCreateInputs ==
    {[artifact_type |-> ty, source_path |-> NoSource,
      source_artifacts |-> [shape |-> "None"], processing_module |-> NoneStr,
      metadata |-> md] :
        ty \in {"video_raw", "video_deid"},
        md \in {[shape |-> "None"]}
                  \cup {[shape |-> "dict", val |-> [run_id |-> r]] : r \in 1..MaxRuns}}

\* (artifact_type, status, run_id) arguments of list_artifacts
ListInputs ==
    {NoneStr, "video_raw"} \X {NoneStr, "completed", "failed"} \X (0..MaxRuns)

NextListing ==
    \/ start_processing_run
    \/ end_processing_run("completed")
    \/ \E a \in ListCreateInputs : create_artifact(a)
    \/ \E i \in KnownIds : update_artifact_status(i, "failed", "boom")
    \/ \E f \in ListInputs : list_artifacts_call(f[1], f[2], f[3])

SpecListing == InitListing /\ [][NextListing]_vars

\* C33: createArtifact never stamps the active run's id into the artifact's
\* metadata, so listArtifacts(type, status, runId = r) returns exactly the
\* persisted artifacts that match the type and status filters (both) and
\* whose caller-supplied metadata has run_id equal to r; an artifact
\* created during run r without that key is not returned, although its id
\* is in r's output list.
C33_ListByRunIdKey ==
    [][/\ (CallStep("create_artifact") /\ ret'.raised = NoneStr)
             => metadata'[ret'.artifact_id].metadata = dict_or_empty(ret'.args.metadata)
       /\ CallStep("list_artifacts")
             => /\ ret'.raised = NoneStr
                /\ ret'.result =
                      {metadata[i] : i \in {j \in DOMAIN metadata :
                          /\ ret'.artifact_type = NoneStr
                                \/ metadata[j].artifact_type = ret'.artifact_type
                          /\ ret'.status = NoneStr \/ metadata[j].status = ret'.status
                          /\ ret'.run_id = NoneId
                                \/ (/\ "run_id" \in DOMAIN metadata[j].metadata
                                    /\ metadata[j].metadata.run_id = ret'.run_id)}}
                /\ \A i \in DOMAIN metadata :
                      "run_id" \notin DOMAIN metadata[i].metadata
                         => (ret'.run_id # NoneId => metadata[i] \notin ret'.result)
                /\ metadata' = metadata /\ files' = files /\ audit' = audit
                /\ runs' = runs /\ current_run' = current_run]_vars

\* witness of C33: a listing by the id of the current run has returned the
\* one artifact whose metadata names that run and left out the artifact
\* created during the run without the key, which is in the run's output list
C33_Witness ==
    /\ ret.op = "list_artifacts"
    /\ ret.run_id = current_run
    /\ current_run # NoneId
    /\ Cardinality(ret.result) = 1
    /\ \E i \in DOMAIN metadata :
          /\ "run_id" \notin DOMAIN metadata[i].metadata
          /\ i \in Elements(runs[current_run].output_artifacts)
          /\ metadata[i] \notin ret.result


(* ------------------- metadata files damaged on disk -------------------- *)

\* a metadata file is edited from outside the manager: its type or status
\* string becomes one that is no member of the enumeration
DamageRecord(i, field) ==
    /\ i \in DOMAIN metadata
    /\ metadata[i].artifact_type \in ArtifactType
    /\ metadata[i].status \in ArtifactStatus
    /\ metadata' = [metadata EXCEPT ![i] = [@ EXCEPT ![field] = "bogus"]]
    /\ UNCHANGED <<config_vars, files, temp, audit, runs, current_run, clock,
                   next_uuid, ncalls, ret, thread_vars>>

NextDamaged ==
    \/ \E a \in {b \in ListCreateInputs : b.metadata.shape = "None"} : create_artifact(a)
    \/ \E i \in DOMAIN metadata, field \in {"artifact_type", "status"} : DamageRecord(i, field)
    \/ \E i \in KnownIds : get_artifact(i)
    \/ \E ty \in {NoneStr, "video_raw"} : list_artifacts_call(ty, NoneStr, NoneId)
    \/ get_statistics

SpecDamaged == InitListing /\ [][NextDamaged]_vars

\* the record's type or status string is no member of its enumeration
Damaged(a) == a.artifact_type \notin ArtifactType \/ a.status \notin ArtifactStatus

\* C34: a metadata record whose stored type or status string is no member
\* of the enumeration makes loading fail loudly: getArtifact of it raises
\* and returns nothing, with the manager lock free afterwards, and a
\* listing or statistics call that scans such a record aborts as a whole,
\* whatever its filters; loading an id without record returns absent
\* without error.
C34_DamagedRecordFailsLoudly ==
    [][/\ CallStep("get_artifact")
             => LET i == ret'.artifact_id
                IN /\ lock' = NoneId
                   /\ i \notin DOMAIN metadata
                         => ret'.raised = NoneStr /\ ret'.result = NoArtifact
                   /\ (i \in DOMAIN metadata /\ Damaged(metadata[i]))
                         => /\ ret'.raised = "ValueError"
                            /\ ret'.result = NoArtifact
                            /\ audit' = audit
                   /\ (i \in DOMAIN metadata /\ ~Damaged(metadata[i]))
                         => ret'.raised = NoneStr /\ ret'.result = metadata[i]
       /\ (CallStep("list_artifacts") \/ CallStep("get_statistics"))
             => IF \E i \in DOMAIN metadata : Damaged(metadata[i])
                THEN /\ ret'.raised = "ValueError"
                     /\ ret'.result = NoArtifact
                     /\ audit' = audit
                ELSE ret'.raised = NoneStr]_vars

\* witness of C34: a listing by a type has raised although a sound record
\* of that type exists, because a record of another type is damaged
C34_Witness ==
    /\ ret.op = "list_artifacts"
    /\ ret.raised = "ValueError"
    /\ ret.artifact_type = "video_raw"
    /\ \E i, j \in DOMAIN metadata :
          /\ ~Damaged(metadata[i]) /\ metadata[i].artifact_type = "video_raw"
          /\ metadata[j].artifact_type = "video_deid" /\ metadata[j].status = "bogus"


(* --------------------------- the two reads ----------------------------- *)

\* C35: getArtifact and getArtifactFile are pure reads of the store: they
\* leave every metadata record, every stored file and the current run as
\* they are, and the one artifact_access entry each writes has success true
\* exactly when the call returned a record (an existing file path), false
\* when it returned absent.
C35_ReadsArePureAndAudited ==
    [][(CallStep("get_artifact") \/ CallStep("get_artifact_file"))
          => LET log == Entries(audit)
                 after == Entries(audit')
                 found == IF ret'.op = "get_artifact" THEN ret'.result # NoArtifact
                          ELSE ret'.result # NonePath
             IN /\ ret'.raised = NoneStr
                /\ metadata' = metadata /\ files' = files /\ temp' = temp
                /\ runs' = runs /\ current_run' = current_run
                /\ Len(after) = Len(log) + 1
                /\ SubSeq(after, 1, Len(log)) = log
                /\ after[Len(after)].operation = "artifact_access"
                /\ after[Len(after)].action =
                      (IF ret'.op = "get_artifact" THEN "get_metadata" ELSE "get_file")
                /\ after[Len(after)].artifact_id = ret'.artifact_id
                /\ after[Len(after)].success = found]_vars

\* witness of C35: a record was read with success, and the read of its
\* file, which the record does not have, has just been audited as a failure
C35_Witness ==
    /\ ret.op = "get_artifact_file"
    /\ ret.result = NonePath
    /\ ret.artifact_id \in DOMAIN metadata
    /\ LET log == Entries(audit)
       IN /\ Len(log) = 3
          /\ log[2].action = "get_metadata" /\ log[2].success
          /\ log[2].artifact_id = ret.artifact_id
          /\ log[3].action = "get_file" /\ ~log[3].success


(* ------------------- a store step that is refused ---------------------- *)

\* C37: a createArtifact that fails in the store step because the source is
\* a symbolic link or does not exist leaves the bookkeeping as it was,
\* apart from the one failure audit entry: no metadata record and no
\* stored file exist for the new id (getArtifact of it returns absent, the
\* listing and the artifact and storage totals of getStatistics are
\* unchanged), the current run's output list is unchanged, and the manager
\* lock is free.
C37_RefusedStoreLeavesNoTrace ==
    [][(/\ CallStep("create_artifact")
        /\ valid_shapes(ret'.args)
        /\ ret'.args.source_path.shape = "Path"
        /\ ret'.args.source_path.kind \in {"symlink", "dangling_symlink", "missing"})
          => LET i == ret'.artifact_id
                 before == statistics(metadata, files, audit, FALSE)
                 after == statistics(metadata', files', audit', FALSE)
             IN /\ ret'.raised \in {"Symlinks not allowed for security",
                                    "Source file not found"}
                /\ ret'.result = NoArtifact
                /\ i \notin DOMAIN metadata'
                /\ load_metadata(metadata', i) = NoArtifact
                /\ retrieve_artifact(metadata', files', i) = NonePath
                /\ \A p \in files' : p.aid # i
                /\ metadata' = metadata /\ files' = files /\ temp' = temp
                /\ list_artifacts(metadata', NoneStr, NoneStr, NoneId)
                      = list_artifacts(metadata, NoneStr, NoneStr, NoneId)
                /\ after = before
                /\ runs' = runs /\ current_run' = current_run
                /\ lock' = NoneId
                /\ Len(Entries(audit')) = Len(Entries(audit)) + 1
                /\ ~Entries(audit')[Len(Entries(audit'))].success]_vars

\* witness of C37: inside a run that has one output artifact, the store of
\* a missing source has just been refused
C37_Witness ==
    /\ ret.op = "create_artifact"
    /\ ret.raised = "Source file not found"
    /\ ret.artifact_id = 2
    /\ current_run # NoneId
    /\ runs[current_run].output_artifacts = <<1>>
    /\ DOMAIN metadata = {1}


(* --------------- the audit trail against the store -------------------- *)

\* C38: the audit trail agrees with the store on artifact status: whenever
\* the manager lock is free, every artifact that has an artifact_update
\* entry has the persisted status that the most recently written of these
\* entries names as new_status, under any interleaving of
\* updateArtifactStatus, linkArtifacts and getArtifact calls.
C38_AuditAgreesOnStatus ==
    lock = NoneId =>
        LET log == Entries(audit)
        IN \A i \in DOMAIN metadata :
              LET updates == {k \in 1..Len(log) : /\ log[k].operation = "artifact_update"
                                                  /\ log[k].artifact_id = i}
              IN updates # {} => metadata[i].status = log[Latest(updates)].details.new_status


(* ------------------- the run entries of the log ----------------------- *)

\* the positions of the processing_run entries of the given action and run
RunEntries(log, action, r) ==
    {k \in 1..Len(log) : /\ log[k].operation = "processing_run"
                         /\ log[k].action = action
                         /\ log[k].details.run_id = r}

\* the entries of every run started so far are well nested
WellNested ==
    LET log == Entries(audit)
    IN /\ \A k \in 1..Len(log) :
             log[k].operation = "processing_run" => log[k].details.run_id \in 1..Len(runs)
       /\ \A r \in 1..Len(runs) :
             LET starts == RunEntries(log, "start", r)
                 ends == RunEntries(log, "end", r)
             IN /\ Cardinality(starts) = 1
                /\ Cardinality(ends) <= 1
                /\ \A e \in ends :
                      /\ \A b \in starts : b < e
                      /\ log[e].success = (runs[r].status = "completed")
                      /\ log[e].details.status = runs[r].status
                      /\ runs[r].completed_at # NoneInt
                      /\ r # current_run
                /\ ends = {} =>
                      /\ runs[r].status = "in_progress"
                      /\ runs[r].completed_at = NoneInt

MaxFairCalls == 2

LineageCall(i) ==
    [op |-> "get_artifact_lineage", artifact_id |-> i, artifact |-> NoArtifact,
     found |-> FALSE, visited |-> {i}, todo |-> <<>>]

\* build_lineage: "if aid in visited: return" for the ids still to be
\* traversed, up to the first one that get_artifact is called for
RECURSIVE unvisited(_, _)
unvisited(todo, visited) ==
    IF todo = <<>> THEN <<>>
    ELSE IF seen(Head(todo), visited) THEN unvisited(Tail(todo), visited)
    ELSE todo

\* get_artifact_lineage: get_artifact's "with self._lock"
lineage_lock(t) ==
    /\ pc[t] = "lineage_lock"
    /\ can_acquire(lock)
    /\ lock' = t
    /\ goto(t, "lineage_body", local[t])
    /\ UNCHANGED <<store_vars, audit, runs, current_run, next_uuid, ncalls>>
    /\ conc_frame

\* get_artifact_lineage: the body of get_artifact, "if not artifact", the
\* loop over the sources up to the next call of get_artifact
lineage_body(t) ==
    /\ pc[t] = "lineage_body"
    /\ LET artifact == load_metadata(metadata, local[t].artifact_id)
           todo == IF artifact = NoArtifact THEN local[t].todo
                   ELSE artifact.source_artifacts \o local[t].todo
           rest == unvisited(todo, local[t].visited)
       IN /\ audit' = IF enable_audit
                      THEN access_entry(audit, clock, local[t].artifact_id,
                                        artifact # NoArtifact)
                      ELSE audit
          /\ IF rest = <<>>
             THEN leave(t, [local[t] EXCEPT !.artifact = artifact,
                                            !.found = artifact # NoArtifact,
                                            !.todo = <<>>])
             ELSE goto(t, "lineage_lock",
                       [local[t] EXCEPT !.artifact_id = Head(rest),
                                        !.visited = @ \cup {Head(rest)},
                                        !.todo = Tail(rest)])
    /\ lock' = lock_exit(t)
    /\ UNCHANGED <<store_vars, runs, current_run, next_uuid, ncalls>>
    /\ conc_frame

\* the creations under way that have not taken their id yet
Creating == {u \in Threads : pc[u] \in {"create_lock", "create_store"}}

\* the runs under way that have not been appended yet
Starting == {u \in Threads : pc[u] = "start_new"}

\* what the first thread may do before the others are started: start a run,
\* create an artifact in it, name a source for it
Setup ==
    << <<StartCall, "start_new">>,
       <<CreateCall([artifact_type |-> "video_keypoints", source_path |-> NoSource,
                     source_artifacts |-> [shape |-> "None"],
                     processing_module |-> NoneStr, metadata |-> [shape |-> "None"]]),
         "create_lock">>,
       <<LinkCall(<<2>>, 1, "derived_from"), "link_get_lock">> >>

\* a manager just constructed; its threads work on it as it is, or after the
\* calls of Setup
InitFair ==
    /\ enable_audit = TRUE
    /\ auto_cleanup = FALSE
    /\ metadata = <<>>
    /\ files = {}
    /\ temp = FALSE
    /\ audit = AuditTrail(DefaultRotationSize, 0)
    /\ runs = <<>>
    /\ current_run = NoneId
    /\ clock = 0
    /\ next_uuid = 0
    /\ ncalls = 0
    /\ call_limit \in {MaxFairCalls, Len(Setup) + MaxFairCalls}
    /\ ret = NoCall
    /\ lock = NoneId
    /\ pc = [t \in Threads |-> "idle"]
    /\ local = [t \in Threads |-> NoCall]

\* the calls of Setup that are still to be made
SetupLeft == call_limit - MaxFairCalls - ncalls

\* a thread enters a manager call, one of call_limit calls
BeginWithin(t, call, first) ==
    /\ pc[t] = "idle"
    /\ ncalls < call_limit
    /\ ncalls' = ncalls + 1
    /\ goto(t, first, call @@ [done |-> FALSE, raised |-> NoneStr])
    /\ UNCHANGED <<store_vars, audit, runs, current_run, next_uuid, lock>>
    /\ conc_frame

\* the first thread makes the next call of Setup
SetupCalls(t) ==
    /\ t = 1
    /\ SetupLeft > 0
    /\ LET next == Setup[Len(Setup) - SetupLeft + 1]
       IN BeginWithin(t, next[1], next[2])

\* after the setup has returned a thread enters any call; the ids and the run
\* numbers of the model are enough for every call that has begun
FairCalls(t) ==
    /\ SetupLeft <= 0
    /\ SetupLeft = 0 => Quiescent
    /\ \/ \E a \in ConcCreateInputs :
             /\ next_uuid + Cardinality(Creating) < MaxArtifacts
             /\ BeginWithin(t, CreateCall(a), "create_lock")
       \/ BeginWithin(t, UpdateCall(1, "failed", "boom"), "update_lock")
       \/ BeginWithin(t, GetCall(1), "get_lock")
       \/ BeginWithin(t, LinkCall(<<1>>, 1, "derived_from"), "link_get_lock")
       \/ BeginWithin(t, LineageCall(1), "lineage_lock")
       \/ /\ Len(runs) + Cardinality(Starting) < MaxRuns
          /\ BeginWithin(t, StartCall, "start_new")
       \/ BeginWithin(t, EndCall("completed"), "end_check")

\* the steps of a call that has begun
ThreadSteps(t) ==
    \/ create_lock(t) \/ create_store(t) \/ create_run_check(t)
    \/ create_run_read(t) \/ create_run_append(t) \/ create_audit(t)
    \/ update_lock(t) \/ update_save(t) \/ update_audit(t)
    \/ get_lock(t) \/ get_body(t)
    \/ link_get_lock(t) \/ link_get_body(t) \/ link_save(t) \/ link_audit(t)
    \/ lineage_lock(t) \/ lineage_body(t)
    \/ start_new(t) \/ start_audit(t)
    \/ end_check(t) \/ end_complete(t) \/ end_audit(t) \/ end_clear(t)

NextFair == \E t \in Threads : SetupCalls(t) \/ FairCalls(t) \/ ThreadSteps(t)

\* while some thread can take a step of its call, some thread is scheduled
SpecFair == InitFair /\ [][NextFair]_vars /\ WF_vars(\E t \in Threads : ThreadSteps(t))

\* the positions at which a thread waits for the manager's lock
LockWaits == {"create_lock", "update_lock", "get_lock", "link_get_lock", "lineage_lock"}

\* the positions of a thread inside a "with self._lock" block
LockHeldAt == InsideLock \cup {"lineage_body"}

\* the lock is held by the thread inside a locked block and by no other
HeldInsideOnly ==
    /\ lock \in Threads \cup {NoneId}
    /\ \A t \in Threads : lock = t <=> pc[t] \in LockHeldAt

\* C36: no operation deadlocks: the manager's lock is held exactly by the
\* thread inside a locked block (so it is free after every return and every
\* raise, and a thread about to acquire it does not hold it); it is acquired
\* only when free, and never in a step that writes the audit log under the
\* audit lock; and, the calls of a behaviour being finitely many, every call
\* that has begun returns or raises: in the end no thread is inside a call
C36_NoDeadlock ==
    /\ []HeldInsideOnly
    /\ [][\A t \in Threads : (lock' = t /\ lock # t) => (lock = NoneId /\ audit' = audit)]_vars
    /\ <>[]Quiescent

\* a thread waits for the lock that another thread holds, in the last of
\* the calls, after an earlier call has returned or raised
C36_Witness ==
    \E t, u \in Threads :
        /\ t # u
        /\ lock = t
        /\ pc[t] \in LockHeldAt
        /\ pc[u] \in LockWaits
        /\ ncalls = call_limit

====
